---------------------------- MODULE Spec2Model ----------------------------
(***************************************************************************)
(* Model of the caption search engine of wannabe-starchive                 *)
(* (backend/src/services/search_service.rs, backend/src/utils.rs,          *)
(* backend/src/api/search.rs), of its crawl queue                          *)
(* (backend/src/services/crawler.rs) and of its channel monitoring         *)
(* (backend/src/services/monitoring_service.rs).                           *)
(*                                                                         *)
(* The specifications of the module:                                       *)
(*   SpecRank      - get_paginated_video_ids as a function of the buckets  *)
(*                   the index returns, the metadata documents and the     *)
(*                   options;                                              *)
(*   Spec          - search_captions_with_pagination, one index call per   *)
(*                   step, every call able to fail;                        *)
(*   SpecTrunc     - truncate_around_highlight on bounded texts;           *)
(*   SpecPages     - the total_pages arithmetic on small and large counts; *)
(*   SpecStitch    - stitch_with_neighbors_enhanced on bounded blocks;     *)
(*   SpecParse     - process_search_response on bounded hit lists;         *)
(*   SpecNeighbors - the neighbor split of fetch_neighbors_for_hit;        *)
(*   SpecEndpoint  - the search endpoint in front of the pipeline;         *)
(*   SpecClean     - clean_caption_text on bounded texts;                  *)
(*   SpecPlan      - the query bodies of the requests of one search;       *)
(*   SpecCrawl     - the VideoQueue under requests and crawl jobs;         *)
(*   SpecMonitor   - the monitored-channel list, its lock and its tasks;   *)
(*   SpecMonitorFair - SpecMonitor with every task scheduled fairly.       *)
(*                                                                         *)
(* Conventions.  A video_id is a number: the numeric order stands for the  *)
(* lexicographic order of String::cmp.  Scores and metadata values are     *)
(* small naturals: every f64 the code compares comes out of                *)
(* serde_json's as_f64()/as_i64() (unwrap_or(0)), which never yields NaN,  *)
(* so partial_cmp is always Some and the unwrap_or(Equal) branch of        *)
(* compare_with_order_float is dead.  A text is a sequence of one-character*)
(* strings; the character U+2026 (horizontal ellipsis) is written "~".     *)
(* Times are in hundredths of a second.                                    *)
(***************************************************************************)
EXTENDS Integers, Sequences, FiniteSets, TLC

VARIABLES
    corpus,        \* the index: video_id -> per-video aggregates and metadata
    buckets,       \* the buckets of the terms aggregation, as the index returned them
    pc,            \* position of the running request
    req,           \* the request: page (or from), page_size (or size), options
    total_counts,  \* get_total_counts' result <<total_videos, total_captions>>
    video_ids,     \* get_paginated_video_ids' result
    results,       \* search_captions_with_pagination's `results` vector
    cursor,        \* loop position: next video to fetch / next result to stitch
    calls,         \* the index calls of this request so far, each with its outcome
    collected,     \* the video_ids of the pages a client has paged through so far
    response,      \* what the caller gets: NoResponse, Err or an Ok SearchResponse
    s,             \* truncate_around_highlight: the input text
    max_chars,     \* truncate_around_highlight: the budget
    out,           \* the text a text function returned
    blocks,        \* stitch_with_neighbors_enhanced: prev, anchor_html, next
    index_hits,    \* process_search_response: the hits array of the response
    window_hits,   \* fetch_neighbors_for_hit: the captions the window query returned
    anchor,        \* fetch_neighbors_for_hit: anchor times, before, after
    split,         \* fetch_neighbors_for_hit: <<prev_captions, next_captions>>
    query,         \* search_captions: the query parameter of the HTTP request
    queue,         \* VideoQueue: the VecDeque behind the mutex
    jobs,          \* crawl_youtube_video: each running job's position, item and count
    now,           \* chrono::Utc::now().timestamp(), in seconds
    added,         \* number of add_video calls so far (stands for added_at)
    popped,        \* the items pop_next_video handed out, in order
    removed,       \* the items remove_item took out of the queue
    channels,      \* MONITORED_CHANNELS: the Vec behind the RwLock
    index_docs,    \* the monitored_channels index: the ids of its documents
    lock,          \* the RwLock of MONITORED_CHANNELS: holders and waiters
    tasks          \* the monitoring check and the channel requests: position and arguments

vars == <<corpus, buckets, pc, req, total_counts, video_ids, results, cursor,
          calls, collected, response, s, max_chars, out, blocks, index_hits,
          window_hits, anchor, split, query, queue, jobs, now, added, popped,
          removed, channels, index_docs, lock, tasks>>

requestVars == <<buckets, req, total_counts, video_ids, results, cursor, calls,
                 collected, response>>

truncVars == <<s, max_chars, out>>

unitVars == <<blocks, index_hits, window_hits, anchor, split, query>>

crawlVars == <<queue, jobs, now, added, popped, removed>>

monitorVars == <<channels, index_docs, lock, tasks>>

serviceVars == <<crawlVars, monitorVars>>

(***************************************************************************)
(* Bounds of the model.                                                    *)
(***************************************************************************)
MaxVideos == 3
MaxPageSize == 2
MaxFailedCalls == 1
MaxMatches == 2

(***************************************************************************)
(* Generic helpers.                                                        *)
(***************************************************************************)
Min(a, b) == IF a < b THEN a ELSE b

Max(a, b) == IF a > b THEN a ELSE b

\* a.saturating_sub(b) on usize
SaturatingSub(a, b) == IF a > b THEN a - b ELSE 0

Range(f) == {f[i] : i \in DOMAIN f}

\* iter.skip(n).take(k).collect()
SkipTake(seq, n, k) ==
    SubSeq(seq, n + 1, Min(Len(seq), n + k))

\* All orders in which a set can be listed.
Orderings(S) ==
    {f \in [1..Cardinality(S) -> S] : \A a \in S : \E i \in DOMAIN f : f[i] = a}

(***************************************************************************)
(* SearchOptions (search_service.rs:24-52).                                *)
(***************************************************************************)
SortBy == {"Relevance", "UploadDate", "Duration", "Views", "Likes", "CaptionMatches"}

SortOrder == {"Asc", "Desc"}

SearchType == {"Natural", "Wide"}

MetadataSorts == {"UploadDate", "Duration", "Views", "Likes"}

SearchOptions == [sort_by : SortBy, sort_order : SortOrder]

(***************************************************************************)
(* utils.rs: the comparators.  An Ordering is "Less", "Equal" or "Greater".*)
(***************************************************************************)
PartialCmp(a, b) ==
    IF a < b THEN "Less" ELSE IF a > b THEN "Greater" ELSE "Equal"

compare_with_order_float(a, b, order) ==
    IF order = "Asc" THEN PartialCmp(a, b) ELSE PartialCmp(b, a)

\* i64 -> f64 is exact on the values of the model (below 2^53).
compare_with_order_int(a, b, order) == compare_with_order_float(a, b, order)

\* Ordering::then_with
ThenWith(first, second) == IF first # "Equal" THEN first ELSE second

(***************************************************************************)
(* The index.  Per video the captions index yields the aggregates of the   *)
(* matching captions (avg_score, match_count = doc_count) and the videos   *)
(* index holds upload_date, duration, views and likes.  A corpus maps the  *)
(* video_ids 1..n to such a profile.                                       *)
(***************************************************************************)
ProfileFields ==
    {"avg_score", "match_count", "upload_date", "duration", "views", "likes"}

BaseProfile ==
    [avg_score |-> 1, match_count |-> 2, upload_date |-> 0, duration |-> 0,
     views |-> 0, likes |-> 0]

RaisedProfile ==
    [avg_score |-> 2, match_count |-> 5, upload_date |-> 1, duration |-> 1,
     views |-> 1, likes |-> 1]

\* The profiles that differ from the base profile in at most one field.
RankProfiles ==
    {[f \in ProfileFields |-> IF f \in d THEN RaisedProfile[f] ELSE BaseProfile[f]] :
        d \in {dd \in SUBSET ProfileFields : Cardinality(dd) <= 1}}

RankCorpora == UNION {[1..n -> RankProfiles] : n \in 0..MaxVideos}

\* The buckets of the terms aggregation, listed in the order `order`.
Buckets(c, order) ==
    [i \in DOMAIN order |->
        [key |-> order[i], avg_score |-> c[order[i]].avg_score,
         max_score |-> c[order[i]].avg_score, doc_count |-> c[order[i]].match_count]]

\* The multi-get response for the requested ids, in the requested order.
MgetDocs(c, ids) ==
    [i \in DOMAIN ids |->
        [id |-> ids[i],
         source |-> [upload_date |-> c[ids[i]].upload_date,
                     duration |-> c[ids[i]].duration,
                     views |-> c[ids[i]].views, likes |-> c[ids[i]].likes]]]

(***************************************************************************)
(* get_paginated_video_ids (search_service.rs:198-341).                    *)
(***************************************************************************)
\* lines 241-260: one VideoSortData per bucket, metadata zeroed
VideoSortData(bucket) ==
    [video_id |-> bucket.key, avg_score |-> bucket.avg_score,
     max_score |-> bucket.max_score, match_count |-> bucket.doc_count,
     upload_date |-> 0, duration |-> 0, views |-> 0, likes |-> 0]

\* lines 381-393: the first entry with the document's id takes its fields
ApplyDoc(video_data, doc) ==
    LET hits == {i \in DOMAIN video_data : video_data[i].video_id = doc.id}
    IN  IF hits = {} THEN video_data
        ELSE LET i == CHOOSE k \in hits : \A j \in hits : k <= j
             IN  [video_data EXCEPT ![i].upload_date = doc.source.upload_date,
                                    ![i].duration = doc.source.duration,
                                    ![i].views = doc.source.views,
                                    ![i].likes = doc.source.likes]

RECURSIVE ApplyDocs(_, _, _)
ApplyDocs(video_data, docs, k) ==
    IF k > Len(docs) THEN video_data
    ELSE ApplyDocs(ApplyDoc(video_data, docs[k]), docs, k + 1)

\* lines 344-399
fetch_video_metadata_for_sorting(c, video_data) ==
    ApplyDocs(video_data,
              MgetDocs(c, [i \in DOMAIN video_data |-> video_data[i].video_id]), 1)

\* lines 290-293 etc.: the secondary and tertiary keys of the metadata and
\* CaptionMatches sorts
ScoreThenId(a, b) ==
    ThenWith(compare_with_order_float(a.avg_score, b.avg_score, "Desc"),
             PartialCmp(a.video_id, b.video_id))

\* VideoCmp without the video_id tie-break of the Relevance sort.
VideoCmpNoIdTieBreak(a, b, options) ==
    IF options.sort_by = "Relevance"
    THEN compare_with_order_float(a.avg_score, b.avg_score, options.sort_order)
    ELSE ThenWith(compare_with_order_float(
                      CASE options.sort_by = "CaptionMatches" -> a.match_count
                        [] options.sort_by = "UploadDate" -> a.upload_date
                        [] options.sort_by = "Duration" -> a.duration
                        [] options.sort_by = "Views" -> a.views
                        [] options.sort_by = "Likes" -> a.likes,
                      CASE options.sort_by = "CaptionMatches" -> b.match_count
                        [] options.sort_by = "UploadDate" -> b.upload_date
                        [] options.sort_by = "Duration" -> b.duration
                        [] options.sort_by = "Views" -> b.views
                        [] options.sort_by = "Likes" -> b.likes,
                      options.sort_order),
                  ScoreThenId(a, b))

\* VideoCmp with the avg_score tie-break following sort_order instead of Desc.
VideoCmpScoreFollowsOrder(a, b, options) ==
    LET key(v) == CASE options.sort_by = "Relevance" -> v.avg_score
                    [] options.sort_by = "CaptionMatches" -> v.match_count
                    [] options.sort_by = "UploadDate" -> v.upload_date
                    [] options.sort_by = "Duration" -> v.duration
                    [] options.sort_by = "Views" -> v.views
                    [] options.sort_by = "Likes" -> v.likes
    IN  ThenWith(compare_with_order_float(key(a), key(b), options.sort_order),
                 ThenWith(compare_with_order_float(a.avg_score, b.avg_score,
                                                   options.sort_order),
                          PartialCmp(a.video_id, b.video_id)))

\* lines 276-330: the closure handed to sort_by
VideoCmp(a, b, options) ==
    CASE options.sort_by = "Relevance" ->
            ThenWith(compare_with_order_float(a.avg_score, b.avg_score,
                                              options.sort_order),
                     PartialCmp(a.video_id, b.video_id))
      [] options.sort_by = "CaptionMatches" ->
            ThenWith(compare_with_order_float(a.match_count, b.match_count,
                                              options.sort_order),
                     ScoreThenId(a, b))
      [] options.sort_by = "UploadDate" ->
            ThenWith(compare_with_order_int(a.upload_date, b.upload_date,
                                            options.sort_order),
                     ScoreThenId(a, b))
      [] options.sort_by = "Duration" ->
            ThenWith(compare_with_order_int(a.duration, b.duration,
                                            options.sort_order),
                     ScoreThenId(a, b))
      [] options.sort_by = "Views" ->
            ThenWith(compare_with_order_float(a.views, b.views, options.sort_order),
                     ScoreThenId(a, b))
      [] options.sort_by = "Likes" ->
            ThenWith(compare_with_order_float(a.likes, b.likes, options.sort_order),
                     ScoreThenId(a, b))

\* slice::sort_by is a stable sort: an element is placed after every element
\* already placed that does not compare Greater than it.
InsertSorted(sorted, x, options) ==
    LET before == {j \in DOMAIN sorted : VideoCmp(sorted[j], x, options) # "Greater"}
        at == IF before = {} THEN 0 ELSE CHOOSE j \in before : \A k \in before : k <= j
    IN  SubSeq(sorted, 1, at) \o <<x>> \o SubSeq(sorted, at + 1, Len(sorted))

RECURSIVE SortVideoData(_, _, _)
SortVideoData(video_data, k, options) ==
    IF k = 0 THEN <<>>
    ELSE InsertSorted(SortVideoData(video_data, k - 1, options), video_data[k], options)

\* lines 241-330: the sorted candidates
SortedVideoData(c, bkts, options) ==
    LET parsed == [i \in DOMAIN bkts |-> VideoSortData(bkts[i])]
        video_data == IF options.sort_by \in MetadataSorts
                      THEN fetch_video_metadata_for_sorting(c, parsed)
                      ELSE parsed
    IN  SortVideoData(video_data, Len(video_data), options)

\* skip(from) without take(size)
PaginateWithoutTake(sorted, from, size) ==
    LET page == SubSeq(sorted, from + 1, Len(sorted))
    IN  [i \in DOMAIN page |-> page[i].video_id]

\* lines 332-340: skip(from).take(size).map(video_id)
PaginateVideoIds(sorted, from, size) ==
    LET page == SkipTake(sorted, from, size)
    IN  [i \in DOMAIN page |-> page[i].video_id]

get_paginated_video_ids(c, bkts, from, size, options) ==
    PaginateVideoIds(SortedVideoData(c, bkts, options), from, size)

(***************************************************************************)
(* Texts.  str indices count bytes in the code, which converts them to     *)
(* character counts (chars().count()) before using them; the model counts  *)
(* characters throughout.                                                  *)
(***************************************************************************)
Ellipsis == "~"

PRE_TAG == <<"<", "s", "t", "r", "o", "n", "g", ">">>

POST_TAG == <<"<", "/", "s", "t", "r", "o", "n", "g", ">">>

\* A highlight fragment: the matched text between the tags
Highlighted(word) == PRE_TAG \o word \o POST_TAG

MAX_COMBINED_CHARS == 800

DEFAULT_NEIGHBORS_BEFORE == 2

DEFAULT_NEIGHBORS_AFTER == 2

IsWhitespace(ch) == ch = " "

SentenceEnd == {".", "!", "?"}

\* Does pat occur in txt at the 0-based position i?
MatchesAt(txt, pat, i) ==
    /\ i + Len(pat) <= Len(txt)
    /\ \A k \in 1..Len(pat) : txt[i + k] = pat[k]

\* str::find: the 0-based position of the first occurrence at or after
\* `from`, or -1
FindFrom(txt, pat, from) ==
    LET at == {i \in from..(Len(txt) - Len(pat)) : MatchesAt(txt, pat, i)}
    IN  IF at = {} THEN -1 ELSE CHOOSE i \in at : \A j \in at : i <= j

\* str::trim_start, str::trim_end, str::trim
TrimStart(txt) ==
    LET keep == {i \in 1..Len(txt) : ~IsWhitespace(txt[i])}
    IN  IF keep = {} THEN <<>>
        ELSE SubSeq(txt, CHOOSE i \in keep : \A j \in keep : i <= j, Len(txt))

TrimEnd(txt) ==
    LET keep == {i \in 1..Len(txt) : ~IsWhitespace(txt[i])}
    IN  IF keep = {} THEN <<>>
        ELSE SubSeq(txt, 1, CHOOSE i \in keep : \A j \in keep : i >= j)

Trim(txt) == TrimEnd(TrimStart(txt))

\* str::replace: every non-overlapping occurrence, left to right, in one pass
RECURSIVE ReplaceFrom(_, _, _, _)
ReplaceFrom(txt, pat, to, i) ==
    IF i >= Len(txt) THEN <<>>
    ELSE IF MatchesAt(txt, pat, i)
         THEN to \o ReplaceFrom(txt, pat, to, i + Len(pat))
         ELSE <<txt[i + 1]>> \o ReplaceFrom(txt, pat, to, i + 1)

Replace(txt, pat, to) == ReplaceFrom(txt, pat, to, 0)

\* search_service.rs:790-798
clean_caption_text(txt) ==
    Replace(Replace(Replace(Replace(Replace(Trim(txt),
        <<" ", " ">>, <<" ">>),
        <<" ", ",">>, <<",">>),
        <<" ", ".">>, <<".">>),
        <<" ", "?">>, <<"?">>),
        <<" ", "!">>, <<"!">>)

\* Vec<String>::join(" ")
RECURSIVE JoinWithSpace(_)
JoinWithSpace(parts) ==
    IF Len(parts) = 0 THEN <<>>
    ELSE IF Len(parts) = 1 THEN parts[1]
    ELSE parts[1] \o <<" ">> \o JoinWithSpace(Tail(parts))

\* search_service.rs:781-788
join_neighbor_text(captions) ==
    LET cleaned == [i \in DOMAIN captions |-> clean_caption_text(captions[i].text)]
    IN  JoinWithSpace(SelectSeq(cleaned, LAMBDA x : Trim(x) # <<>>))

\* stitch_with_neighbors_enhanced without the is_empty() tests on prev and next
StitchKeepsEmptyBlocks(prev, anchor_html, next) ==
    LET prev_clean == clean_caption_text(prev)
        next_clean == clean_caption_text(next)
        prev_part ==
            IF prev_clean # <<>> /\ prev_clean[Len(prev_clean)] \in {".", "!", "?", ":"}
            THEN <<prev_clean>>
            ELSE <<<<Ellipsis>> \o prev_clean>>
        next_part ==
            IF next_clean # <<>> /\ next_clean[1] \in {".", ",", "!", "?", ":"}
            THEN <<next_clean>>
            ELSE <<next_clean \o <<Ellipsis>>>>
    IN  JoinWithSpace(prev_part \o <<clean_caption_text(anchor_html)>> \o next_part)

\* search_service.rs:801-827
stitch_with_neighbors_enhanced(prev, anchor_html, next) ==
    LET prev_clean == clean_caption_text(prev)
        next_clean == clean_caption_text(next)
        prev_part ==
            IF prev = <<>> THEN <<>>
            ELSE IF prev_clean # <<>> /\ prev_clean[Len(prev_clean)] \in {".", "!", "?", ":"}
                 THEN <<prev_clean>>
                 ELSE <<<<Ellipsis>> \o prev_clean>>
        next_part ==
            IF next = <<>> THEN <<>>
            ELSE IF next_clean # <<>> /\ next_clean[1] \in {".", ",", "!", "?", ":"}
                 THEN <<next_clean>>
                 ELSE <<next_clean \o <<Ellipsis>>>>
    IN  JoinWithSpace(prev_part \o <<clean_caption_text(anchor_html)>> \o next_part)

(***************************************************************************)
(* truncate_around_highlight (search_service.rs:829-927).  Positions are   *)
(* the code's 0-based character positions; s_chars[i] is txt[i + 1].       *)
(***************************************************************************)
extra_buffer == 20

SentenceWindow == 30

WordWindow == 20

\* lines 834-838: the first pre_tag and the first post_tag after it
\* (positions of the pair, or found = FALSE)
FirstHighlight(txt, pre_tag, post_tag) ==
    LET pre_idx == FindFrom(txt, pre_tag, 0)
        post_idx == IF pre_idx = -1 THEN -1
                    ELSE FindFrom(txt, post_tag, pre_idx + Len(pre_tag))
    IN  [found |-> pre_idx # -1 /\ post_idx # -1,
         hl_start |-> pre_idx,
         hl_end |-> post_idx + Len(post_tag)]

\* BudgetTakes with the trailing cut measured from the start of the highlight.
BudgetTakesFromStart(total_chars, hl_start_chars, hl_end_chars, budget) ==
    LET hl_chars == hl_end_chars - hl_start_chars
        side == SaturatingSub(budget, hl_chars) \div 2
        prefix_take == Min(side + 20, hl_start_chars)
        suffix_take == Min(side + 20, total_chars - hl_end_chars)
    IN  [prefix_take |-> prefix_take, suffix_take |-> suffix_take,
         start_char |-> hl_start_chars - prefix_take,
         end_char |-> Min(hl_start_chars + suffix_take, total_chars)]

\* lines 847-869: the characters taken on each side of the highlight
BudgetTakes(total_chars, hl_start_chars, hl_end_chars, budget) ==
    LET hl_chars == hl_end_chars - hl_start_chars
        remaining == SaturatingSub(budget, hl_chars)
        side == remaining \div 2
        prefix_take0 == Min(side + extra_buffer, hl_start_chars)
        suffix_take0 == Min(side + extra_buffer, total_chars - hl_end_chars)
        total_take == prefix_take0 + hl_chars + suffix_take0
        extra == budget - total_take
        prefix_take ==
            IF total_take < budget /\ prefix_take0 < hl_start_chars
            THEN prefix_take0 + Min(hl_start_chars - prefix_take0, extra \div 2)
            ELSE prefix_take0
        suffix_take ==
            IF total_take < budget /\ suffix_take0 < total_chars - hl_end_chars
            THEN suffix_take0 + Min(total_chars - hl_end_chars - suffix_take0, extra \div 2)
            ELSE suffix_take0
    IN  [prefix_take |-> prefix_take, suffix_take |-> suffix_take,
         start_char |-> hl_start_chars - prefix_take,
         end_char |-> Min(hl_end_chars + suffix_take, total_chars)]

\* lines 876, 884: for i in (0..=start_char.min(start_char + window)).rev(),
\* the first i whose character is in `stops`, or -1
ScanBack(txt, start_char, stops, window) ==
    LET at == {i \in 0..Min(start_char, start_char + window) :
                   i < Len(txt) /\ txt[i + 1] \in stops}
    IN  IF at = {} THEN -1 ELSE CHOOSE i \in at : \A j \in at : i >= j

\* lines 894, 902: for i in end_char..=(end_char + window).min(total_chars - 1)
ScanForward(txt, end_char, stops, window) ==
    LET at == {i \in end_char..Min(end_char + window, Len(txt) - 1) :
                   i < Len(txt) /\ txt[i + 1] \in stops}
    IN  IF at = {} THEN -1 ELSE CHOOSE i \in at : \A j \in at : i <= j

\* lines 871-891
ActualStart(txt, start_char) ==
    IF start_char = 0 THEN start_char
    ELSE LET sent == ScanBack(txt, start_char, SentenceEnd, SentenceWindow)
             after_sentence == IF sent = -1 THEN start_char
                               ELSE Min(sent + 1, Len(txt) - 1)
             word == ScanBack(txt, start_char, {" "}, WordWindow)
         IN  IF after_sentence = start_char /\ word # -1 THEN word + 1
             ELSE after_sentence

\* lines 893-909
ActualEnd(txt, end_char) ==
    IF end_char >= Len(txt) THEN end_char
    ELSE LET sent == ScanForward(txt, end_char, SentenceEnd, SentenceWindow)
             after_sentence == IF sent = -1 THEN end_char
                               ELSE Min(sent + 1, Len(txt))
             word == ScanForward(txt, end_char, {" "}, WordWindow)
         IN  IF after_sentence = end_char /\ word # -1 THEN word
             ELSE after_sentence

\* The cut points of a text that holds a highlight pair (lines 840-909).
TruncateCuts(txt, budget, pre_tag, post_tag) ==
    LET hl == FirstHighlight(txt, pre_tag, post_tag)
        takes == BudgetTakes(Len(txt), hl.hl_start, hl.hl_end, budget)
    IN  [hl_start |-> hl.hl_start, hl_end |-> hl.hl_end,
         prefix_take |-> takes.prefix_take, suffix_take |-> takes.suffix_take,
         start_char |-> takes.start_char, end_char |-> takes.end_char,
         actual_start |-> ActualStart(txt, takes.start_char),
         actual_end |-> ActualEnd(txt, takes.end_char)]

\* lines 911-921
WithEllipses(txt, actual_start, actual_end) ==
    LET trimmed == SubSeq(txt, actual_start + 1, actual_end)
        lead == IF actual_start > 0 THEN <<Ellipsis>> \o TrimStart(trimmed)
                ELSE trimmed
    IN  IF actual_end < Len(txt) THEN TrimEnd(lead) \o <<Ellipsis>> ELSE lead

\* lines 925-926
\* lines 925-926 without the two characters kept back for the ellipsis
HeadTruncateWholeBudget(txt, budget) ==
    TrimEnd(SubSeq(txt, 1, Min(Len(txt), budget))) \o <<Ellipsis>>

HeadTruncate(txt, budget) ==
    TrimEnd(SubSeq(txt, 1, Min(Len(txt), SaturatingSub(budget, 2)))) \o <<Ellipsis>>

\* line 830 with < in place of <=
WithinBudgetStrict(txt, budget) == Len(txt) < budget

\* line 830
WithinBudget(txt, budget) == Len(txt) <= budget

truncate_around_highlight(txt, budget, pre_tag, post_tag) ==
    IF WithinBudget(txt, budget) THEN txt
    ELSE IF FirstHighlight(txt, pre_tag, post_tag).found
         THEN LET cuts == TruncateCuts(txt, budget, pre_tag, post_tag)
              IN  WithEllipses(txt, cuts.actual_start, cuts.actual_end)
         ELSE HeadTruncate(txt, budget)

(***************************************************************************)
(* The captions index as search_captions_with_pagination queries it.  A    *)
(* video with m matching captions has the captions                         *)
(*     "hi" at 0 s, the m matching captions at 6 s, 12 s, ..., "bye." next *)
(* each 5 s long.  Every matching caption has the same score; the index    *)
(* highlights the matched word.                                            *)
(***************************************************************************)
CaptionPace == 600

CaptionLength == 500

\* The raw text of the k-th matching caption and its highlight fragment.
HitText(k) == IF k = 1 THEN <<"x">> ELSE <<"x", " ", " ", "y">>

HitHighlight(k) ==
    IF k = 1 THEN Highlighted(<<"x">>) ELSE Highlighted(<<"x">>) \o <<" ", " ", "y">>

CaptionAt(v, position, text) ==
    [video_id |-> v, text |-> text, start_time |-> position * CaptionPace,
     end_time |-> position * CaptionPace + CaptionLength]

\* All captions of video v, ascending by start_time.
CaptionsOf(c, v) ==
    LET m == c[v].match_count
    IN  [i \in 1..(m + 2) |->
            IF i = 1 THEN CaptionAt(v, 0, <<"h", "i">>)
            ELSE IF i = m + 2 THEN CaptionAt(v, m + 1, <<"b", "y", "e", ".">>)
            ELSE CaptionAt(v, i - 1, HitText(i - 1))]

\* The hits of the per-video query: score descending, then start_time
\* ascending (search_service.rs:461-464), each with its highlight fragments.
HitsOf(c, v) ==
    [k \in 1..c[v].match_count |->
        [source |-> CaptionAt(v, k, HitText(k)), highlight |-> <<HitHighlight(k)>>]]

RECURSIVE SumMatches(_, _)
SumMatches(c, n) == IF n = 0 THEN 0 ELSE c[n].match_count + SumMatches(c, n - 1)

\* search_service.rs:153-195: the cardinality and value_count aggregations
get_total_counts(c) == <<Len(c), SumMatches(c, Len(c))>>

\* search_service.rs:588-627
parse_search_result(hit) ==
    [video_id |-> hit.source.video_id,
     start_time |-> hit.source.start_time,
     end_time |-> hit.source.end_time,
     snippet_html |-> IF hit.highlight # <<>> THEN hit.highlight[1]
                      ELSE hit.source.text]

\* process_search_response that leaves out the hits without highlight
ProcessDropsUnhighlighted(hits) ==
    LET kept == SelectSeq(hits, LAMBDA hit : hit.highlight # <<>>)
    IN  [k \in DOMAIN kept |-> parse_search_result(kept[k])]

\* search_service.rs:629-651: one SearchResult per hit, in the order of the hits
process_search_response(hits) ==
    [k \in DOMAIN hits |-> parse_search_result(hits[k])]

\* search_service.rs:415-479
get_all_captions_for_video(c, v) == process_search_response(HitsOf(c, v))

WindowPerCaption == 600

MinWindow == 3000

\* search_service.rs:661-677: the captions of the video whose start_time is
\* in the window, ascending, at most max((before + after + 1) * 3, 50)
WindowCaptions(c, v, anchor_start_time, anchor_end_time, before, after) ==
    LET window == Max((before + after) * WindowPerCaption, MinWindow)
        inside == SelectSeq(CaptionsOf(c, v),
                            LAMBDA cap :
                                /\ cap.start_time >= anchor_start_time - window
                                /\ cap.start_time <= anchor_end_time + window)
    IN  SubSeq(inside, 1, Min(Len(inside), Max((before + after + 1) * 3, 50)))

AnchorEpsilon == 10

Abs(x) == IF x < 0 THEN -x ELSE x

\* SplitNeighbors that never looks for the anchor and always splits by time
SplitByTimeOnly(all_captions, anchor_start_time, anchor_end_time, before, after) ==
    LET prev_captions ==
            SelectSeq(all_captions, LAMBDA cap : cap.start_time < anchor_start_time)
        next_captions ==
            SelectSeq(all_captions, LAMBDA cap : cap.start_time > anchor_end_time)
    IN  <<SubSeq(prev_captions, Max(Len(prev_captions) - before, 0) + 1,
                 Len(prev_captions)),
          SubSeq(next_captions, 1, Min(after, Len(next_captions)))>>

\* SplitNeighbors whose time split keeps the first `before` captions
SplitKeepsFirstBefore(all_captions, anchor_start_time, anchor_end_time, before, after) ==
    LET near == {i \in DOMAIN all_captions :
                    Abs(all_captions[i].start_time - anchor_start_time) < AnchorEpsilon}
    IN  IF near # {}
        THEN LET anchor_idx == CHOOSE i \in near : \A j \in near : i <= j
             IN  <<SubSeq(all_captions, Max(anchor_idx - before, 1), anchor_idx - 1),
                   SubSeq(all_captions, anchor_idx + 1,
                          Min(anchor_idx + after, Len(all_captions)))>>
        ELSE LET prev_captions ==
                     SelectSeq(all_captions,
                               LAMBDA cap : cap.start_time < anchor_start_time)
                 next_captions ==
                     SelectSeq(all_captions,
                               LAMBDA cap : cap.start_time > anchor_end_time)
             IN  <<SubSeq(prev_captions, 1, Min(before, Len(prev_captions))),
                   SubSeq(next_captions, 1, Min(after, Len(next_captions)))>>

\* search_service.rs:689-735: <<prev_captions, next_captions>>
SplitNeighbors(all_captions, anchor_start_time, anchor_end_time, before, after) ==
    LET near == {i \in DOMAIN all_captions :
                    Abs(all_captions[i].start_time - anchor_start_time) < AnchorEpsilon}
    IN  IF near # {}
        THEN LET anchor_idx == CHOOSE i \in near : \A j \in near : i <= j
             IN  <<SubSeq(all_captions, Max(anchor_idx - before, 1), anchor_idx - 1),
                   SubSeq(all_captions, anchor_idx + 1,
                          Min(anchor_idx + after, Len(all_captions)))>>
        ELSE LET prev_captions ==
                     SelectSeq(all_captions,
                               LAMBDA cap : cap.start_time < anchor_start_time)
                 next_captions ==
                     SelectSeq(all_captions,
                               LAMBDA cap : /\ ~(cap.start_time < anchor_start_time)
                                            /\ cap.start_time > anchor_end_time)
             IN  <<SubSeq(prev_captions, Max(Len(prev_captions) - before, 0) + 1,
                          Len(prev_captions)),
                   SubSeq(next_captions, 1, Min(after, Len(next_captions)))>>

\* search_service.rs:653-746
fetch_neighbors_for_hit(c, v, anchor_start_time, anchor_end_time, before, after) ==
    SplitNeighbors(WindowCaptions(c, v, anchor_start_time, anchor_end_time, before, after),
                   anchor_start_time, anchor_end_time, before, after)

\* search_service.rs:128-137: the snippet of a result given its neighbors
StitchedSnippet(snippet_html, neighbors) ==
    truncate_around_highlight(
        stitch_with_neighbors_enhanced(join_neighbor_text(neighbors[1]), snippet_html,
                                       join_neighbor_text(neighbors[2])),
        MAX_COMBINED_CHARS, PRE_TAG, POST_TAG)

(***************************************************************************)
(* (total_videos as f32 / page_size as f32).ceil() as usize                *)
(* (search_service.rs:140).  `as f32` rounds an integer to the 24-bit      *)
(* significand of an f32, ties to even (exact below 2^24); the quotient of *)
(* the two f32 values is rounded the same way before ceil() is taken.      *)
(* page_size is at least 1.                                                *)
(***************************************************************************)
RECURSIVE Pow2(_)
Pow2(n) == IF n = 0 THEN 1 ELSE 2 * Pow2(n - 1)

\* floor(log2(n)) for n >= 1
RECURSIVE Log2(_)
Log2(n) == IF n < 2 THEN 0 ELSE 1 + Log2(n \div 2)

F32SignificandBits == 24

\* num / den rounded to the nearest integer, ties to even
RoundHalfEven(num, den) ==
    LET fl == num \div den
        rem == num % den
    IN  IF 2 * rem < den THEN fl
        ELSE IF 2 * rem > den THEN fl + 1
        ELSE IF fl % 2 = 0 THEN fl ELSE fl + 1

\* n as f32, for a usize n
AsF32(n) ==
    IF n < Pow2(F32SignificandBits) THEN n
    ELSE LET unit == Pow2(Log2(n) - (F32SignificandBits - 1))
         IN  RoundHalfEven(n, unit) * unit

\* (a / b).ceil() as usize for f32 values a >= 0 and b >= 1 that are integers
CeilF32Div(a, b) ==
    IF a = 0 THEN 0
    ELSE IF a < b THEN 1
    ELSE LET e == Log2(a \div b)
         IN  IF e < F32SignificandBits
             THEN LET scale == Pow2(F32SignificandBits - 1 - e)
                      significand == RoundHalfEven(a * scale, b)
                  IN  (significand + scale - 1) \div scale
             ELSE LET unit == Pow2(e - (F32SignificandBits - 1))
                  IN  RoundHalfEven(a, b * unit) * unit

\* The quotient truncated to usize, without ceil().
TotalPagesFloor(total_videos, page_size) == total_videos \div page_size

\* One more than the truncated quotient.
TotalPagesPlusOne(total_videos, page_size) == total_videos \div page_size + 1

TotalPages(total_videos, page_size) ==
    CeilF32Div(AsF32(total_videos), AsF32(page_size))

(***************************************************************************)
(* Values of the variables a specification does not use.                   *)
(***************************************************************************)
NoRequest == [page |-> 0, page_size |-> 1, from |-> 0, size |-> 1,
              options |-> [sort_by |-> "Relevance", sort_order |-> "Desc"]]

NoResponse == [kind |-> "None"]

SearchIdle ==
    /\ buckets = <<>>
    /\ req = NoRequest
    /\ total_counts = <<0, 0>>
    /\ video_ids = <<>>
    /\ results = <<>>
    /\ cursor = 0
    /\ calls = <<>>
    /\ collected = <<>>
    /\ response = NoResponse

TruncIdle ==
    /\ s = <<>>
    /\ max_chars = 0
    /\ out = <<>>

NoBlocks == [prev |-> <<>>, anchor_html |-> <<>>, next |-> <<>>]

NoAnchor == [start_time |-> 0, end_time |-> 0, before |-> 0, after |-> 0]

UnitIdle ==
    /\ blocks = NoBlocks
    /\ index_hits = <<>>
    /\ window_hits = <<>>
    /\ anchor = NoAnchor
    /\ split = <<<<>>, <<>>>>
    /\ query = <<>>

MaxJobs == 2

Jobs == 1..MaxJobs

NoItem == [id |-> <<0, 0>>, video_id |-> 0, status |-> "none", added_at |-> 0]

IdleJob == [pc |-> "idle", item |-> NoItem, count |-> 0]

Tasks == {"check", "request1", "request2"}

IdleTask == [pc |-> "idle", op |-> "none", channel_id |-> 0, active |-> FALSE,
             position |-> 0, count |-> 0]

FreeLock == [readers |-> {}, writer |-> "none", waiters |-> <<>>]

CrawlIdle ==
    /\ queue = <<>>
    /\ jobs = [j \in Jobs |-> IdleJob]
    /\ now = 0
    /\ added = 0
    /\ popped = <<>>
    /\ removed = {}

MonitorIdle ==
    /\ channels = <<>>
    /\ index_docs = {}
    /\ lock = FreeLock
    /\ tasks = [t \in Tasks |-> IdleTask]

ServiceIdle == CrawlIdle /\ MonitorIdle

(***************************************************************************)
(* SpecRank: get_paginated_video_ids applied to every bounded corpus, in   *)
(* every order the index may list the buckets, for every request.          *)
(***************************************************************************)
InitRank ==
    /\ corpus \in RankCorpora
    /\ pc = "rank"
    /\ SearchIdle
    /\ TruncIdle
    /\ ServiceIdle
    /\ UnitIdle

RankVideos ==
    /\ pc = "rank"
    /\ \E options \in SearchOptions, from \in 0..1,
          size \in (MaxVideos - 1)..MaxVideos,
          order \in Orderings(DOMAIN corpus) :
          /\ buckets' = Buckets(corpus, order)
          /\ req' = [NoRequest EXCEPT !.from = from, !.size = size, !.options = options]
          /\ video_ids' = get_paginated_video_ids(corpus, buckets', from, size, options)
    /\ pc' = "ranked"
    /\ UNCHANGED <<corpus, total_counts, results, cursor, calls, collected, response>>
    /\ UNCHANGED <<truncVars, unitVars, serviceVars>>

NextRank == RankVideos

SpecRank == InitRank /\ [][NextRank]_vars

(***************************************************************************)
(* C1.  Ranking does not depend on the order in which the index lists the  *)
(* buckets: whatever order the buckets came in, the ranked page is the one *)
(* every other listing of the same buckets gives for the same request.     *)
(***************************************************************************)
RankingIsDeterministic ==
    pc = "ranked" =>
        \A order \in Orderings(DOMAIN corpus) :
            get_paginated_video_ids(corpus, Buckets(corpus, order),
                                    req.from, req.size, req.options) = video_ids

\* Two videos tied on the primary key and on avg_score were ranked from
\* buckets that the index did not list by ascending key.
RankingIsDeterministicWitness ==
    /\ pc = "ranked"
    /\ req.options.sort_by = "Relevance"
    /\ Len(video_ids) >= 2
    /\ corpus[video_ids[1]].avg_score = corpus[video_ids[2]].avg_score
    /\ \E i \in 1..(Len(buckets) - 1) : buckets[i].key > buckets[i + 1].key

(***************************************************************************)
(* C3.  The page is ordered by the three-level chain: the sort_by field   *)
(* per sort_order; on a tie avg_score descending (video_id ascending when  *)
(* sort_by is Relevance); last video_id ascending.  CaptionMatches         *)
(* ascending over match counts 5 and 2 lists the video with 2 first.       *)
(***************************************************************************)
PrimaryKey(v, sort_by) ==
    CASE sort_by = "Relevance" -> corpus[v].avg_score
      [] sort_by = "CaptionMatches" -> corpus[v].match_count
      [] sort_by = "UploadDate" -> corpus[v].upload_date
      [] sort_by = "Duration" -> corpus[v].duration
      [] sort_by = "Views" -> corpus[v].views
      [] sort_by = "Likes" -> corpus[v].likes

RankedBefore(a, b, options) ==
    LET ka == PrimaryKey(a, options.sort_by)
        kb == PrimaryKey(b, options.sort_by)
    IN  \/ options.sort_order = "Asc" /\ ka < kb
        \/ options.sort_order = "Desc" /\ ka > kb
        \/ /\ ka = kb
           /\ IF options.sort_by = "Relevance" THEN a < b
              ELSE \/ corpus[a].avg_score > corpus[b].avg_score
                   \/ corpus[a].avg_score = corpus[b].avg_score /\ a < b

ComparatorChain ==
    pc = "ranked" =>
        /\ \A i \in 1..(Len(video_ids) - 1) :
              RankedBefore(video_ids[i], video_ids[i + 1], req.options)
        /\ ( /\ req.options = [sort_by |-> "CaptionMatches", sort_order |-> "Asc"]
             /\ req.from = 0
             /\ Len(video_ids) = 2
             /\ {corpus[v].match_count : v \in DOMAIN corpus} = {2, 5} )
           => corpus[video_ids[1]].match_count = 2

\* CaptionMatches ascending ranked the video with 2 matches before the video
\* with 5 although the latter has the smaller id, and the second and third
\* place are tied on the match count and decided by the higher avg_score.
ComparatorChainWitness ==
    /\ pc = "ranked"
    /\ req.options = [sort_by |-> "CaptionMatches", sort_order |-> "Asc"]
    /\ Len(video_ids) = 3
    /\ corpus[video_ids[1]].match_count = 2
    /\ corpus[video_ids[2]].match_count = 5
    /\ video_ids[2] < video_ids[1]

(***************************************************************************)
(* SpecTrunc: truncate_around_highlight applied to bounded texts.  A text  *)
(* is prefix ++ span ++ suffix.  A filler is a run of the letter a, plain  *)
(* or with one sentence end or one space at a given distance from the      *)
(* span; a span is a highlight pair, two pairs, an unclosed pre_tag or     *)
(* nothing.                                                                *)
(***************************************************************************)
ShortLen == 2
LongLen == 60
NearDist == 25
MidDist == 45
FarDist == 58
OneCharBudget == 1
TinyBudget == 4
SmallBudget == 20
WideBudget == 80

Letters(n) == [i \in 1..n |-> "a"]

\* n letters with ch as the d-th character
Marked(n, ch, d) == [i \in 1..n |-> IF i = d THEN ch ELSE "a"]

Reverse(txt) == [i \in 1..Len(txt) |-> txt[Len(txt) + 1 - i]]

\* Fillers that follow the span: a mark sits d characters after it.
Fillers ==
    {Letters(n) : n \in {0, ShortLen, LongLen}}
        \cup {Marked(LongLen, ch, d) : ch \in {".", " "}, d \in {NearDist, MidDist, FarDist}}

Spans ==
    { <<>>,
      Highlighted(<<"x">>),
      Highlighted(<<"h", "e", "l", "l", "o", " ", "w", "o", "r", "l", "d">>),
      Highlighted(<<"x">>) \o <<" ">> \o Highlighted(<<"y">>),
      PRE_TAG \o <<"x">>,
      <<"a", " ">> }

TruncInputs ==
    {Reverse(before) \o span \o after :
        before \in Fillers, span \in Spans, after \in Fillers}

Budgets == {OneCharBudget, TinyBudget, SmallBudget, WideBudget, MAX_COMBINED_CHARS}

InitTrunc ==
    /\ s \in TruncInputs
    /\ max_chars \in Budgets
    /\ out = <<>>
    /\ pc = "truncate"
    /\ corpus = <<>>
    /\ SearchIdle
    /\ UnitIdle
    /\ ServiceIdle

Truncate ==
    /\ pc = "truncate"
    /\ out' = truncate_around_highlight(s, max_chars, PRE_TAG, POST_TAG)
    /\ pc' = "truncated"
    /\ UNCHANGED <<s, max_chars, corpus>>
    /\ UNCHANGED requestVars
    /\ UNCHANGED <<unitVars, serviceVars>>

NextTrunc == Truncate

SpecTrunc == InitTrunc /\ [][NextTrunc]_vars

\* Number of occurrences of pat in txt
Occurrences(txt, pat) ==
    Cardinality({i \in 0..(Len(txt) - Len(pat)) : MatchesAt(txt, pat, i)})

\* The input was over budget and holds a highlight pair.
TruncatedAroundPair ==
    /\ pc = "truncated"
    /\ Len(s) > max_chars
    /\ FirstHighlight(s, PRE_TAG, POST_TAG).found

\* The first pair of the input, tags included
FirstPair ==
    LET hl == FirstHighlight(s, PRE_TAG, POST_TAG)
    IN  SubSeq(s, hl.hl_start + 1, hl.hl_end)

CutsStayNearBudget ==
    TruncatedAroundPair =>
        LET cuts == TruncateCuts(s, max_chars, PRE_TAG, POST_TAG)
            \* distance from the budget position to the boundary character:
            \* the leading cut lands just after it, the trailing cut just
            \* after a sentence end and on a space
            lead == cuts.start_char - (cuts.actual_start - 1)
            trail_sentence == (cuts.actual_end - 1) - cuts.end_char
            trail_word == cuts.actual_end - cuts.end_char
        IN  /\ cuts.actual_start # cuts.start_char =>
                  lead <= (IF s[cuts.actual_start] = " " THEN WordWindow
                           ELSE SentenceWindow)
            /\ cuts.actual_end # cuts.end_char =>
                  IF s[cuts.actual_end] \in SentenceEnd
                  THEN trail_sentence <= SentenceWindow
                  ELSE trail_word <= WordWindow
            /\ Len(out) <= Len(FirstPair) + 2 * (extra_buffer + SentenceWindow + 2)
                              + SaturatingSub(max_chars, Len(FirstPair))

(***************************************************************************)
(* C10.  A text of at most max_chars characters is returned unchanged,     *)
(* with or without a highlight pair.                                       *)
(***************************************************************************)
UnchangedBelowBudget ==
    (pc = "truncated" /\ Len(s) <= max_chars) => out = s

\* A text exactly as long as the budget, without highlight, was returned as is.
UnchangedBelowBudgetWitness ==
    /\ pc = "truncated"
    /\ Len(s) = max_chars
    /\ Len(s) > 0
    /\ ~FirstHighlight(s, PRE_TAG, POST_TAG).found
    /\ out = s

(***************************************************************************)
(* C18.  When the input is over budget and one side of the highlight has   *)
(* fewer characters than its half of the remaining budget, the other side  *)
(* gets the unused part: prefix, highlighted span and suffix, as selected  *)
(* before the cuts are moved to a boundary, together number at least       *)
(* max_chars.                                                              *)
(***************************************************************************)
BudgetIsExhausted ==
    TruncatedAroundPair =>
        LET cuts == TruncateCuts(s, max_chars, PRE_TAG, POST_TAG)
            hl_chars == cuts.hl_end - cuts.hl_start
            side == SaturatingSub(max_chars, hl_chars) \div 2
        IN  (cuts.hl_start < side \/ Len(s) - cuts.hl_end < side) =>
                cuts.prefix_take + hl_chars + cuts.suffix_take >= max_chars

(***************************************************************************)
(* Spec: search_captions_with_pagination (search_service.rs:92-150), one   *)
(* step per index call (await), each step running the code up to the next  *)
(* call.  Every call can fail.  A client pages through the results of one  *)
(* query: it asks for page 0, then for the next page, or starts over.      *)
(***************************************************************************)
SearchProfiles ==
    {[BaseProfile EXCEPT !.avg_score = a, !.match_count = m] :
        a \in {1, 2}, m \in 1..MaxMatches}

SearchCorpora == UNION {[1..n -> SearchProfiles] : n \in 0..MaxVideos}

\* sort_order as the endpoint passes it (api/search.rs:41-43); every sort_by,
\* so that the metadata call is made too.
RequestOptions == [sort_by : SortBy, sort_order : {"Desc"}]

\* The terms aggregation asks for "order": {"_key": "asc"} (line 215).
KeyAscending(c) == [i \in DOMAIN c |-> i]

Err(context) == [kind |-> "Err", error |-> context]

\* lines 140-149
SearchResponse(res, counts, page, page_size) ==
    [kind |-> "Ok", results |-> res, total_videos |-> counts[1],
     total_captions |-> counts[2], page |-> page, page_size |-> page_size,
     total_pages |-> TotalPages(counts[1], page_size)]

Called(call, arg, ok) == [call |-> call, arg |-> arg, ok |-> ok]

FailedCalls == {i \in DOMAIN calls : ~calls[i].ok}

Init ==
    /\ corpus \in SearchCorpora
    /\ pc = "idle"
    /\ SearchIdle
    /\ TruncIdle
    /\ ServiceIdle
    /\ UnitIdle

\* The request ends with an error: the ? operator returns it to the caller.
Fail(call, arg, context) ==
    /\ calls' = Append(calls, Called(call, arg, FALSE))
    /\ response' = Err(context)
    /\ pc' = "done"
    /\ UNCHANGED <<corpus, buckets, req, total_counts, video_ids, results, cursor,
                   collected>>
    /\ UNCHANGED <<truncVars, unitVars, serviceVars>>

\* lines 140-149: the request ends with a SearchResponse.
Respond(res) ==
    /\ response' = SearchResponse(res, total_counts, req.page, req.page_size)
    /\ pc' = "done"

StartSearch ==
    /\ pc \in {"idle", "done"}
    /\ \/ \E page_size \in 1..MaxPageSize, options \in RequestOptions :
             /\ req' = [NoRequest EXCEPT !.page_size = page_size, !.options = options]
             /\ collected' = <<>>
       \/ /\ pc = "done"
          /\ response.kind = "Ok"
          /\ req.page + 1 <= response.total_pages
          /\ req' = [req EXCEPT !.page = req.page + 1]
          /\ UNCHANGED collected
       \/ /\ pc = "done"
          /\ response.kind = "Err"
          /\ UNCHANGED <<req, collected>>
    /\ pc' = "count"
    /\ buckets' = <<>>
    /\ total_counts' = <<0, 0>>
    /\ video_ids' = <<>>
    /\ results' = <<>>
    /\ cursor' = 0
    /\ calls' = <<>>
    /\ response' = NoResponse
    /\ UNCHANGED corpus
    /\ UNCHANGED <<truncVars, unitVars, serviceVars>>

\* line 102
CountOk ==
    /\ pc = "count"
    /\ total_counts' = get_total_counts(corpus)
    /\ calls' = Append(calls, Called("count", 0, TRUE))
    /\ pc' = "aggregate"
    /\ UNCHANGED <<corpus, buckets, req, video_ids, results, cursor, collected, response>>
    /\ UNCHANGED <<truncVars, unitVars, serviceVars>>

CountFail ==
    /\ pc = "count"
    /\ Fail("count", 0, "Elasticsearch count request failed")

\* lines 104-105, and 108-113 and 140-149 when the page is empty
AggregateOk ==
    /\ pc = "aggregate"
    /\ buckets' = Buckets(corpus, KeyAscending(corpus))
    /\ calls' = calls \o <<Called("aggregate", 0, TRUE)>>
                      \o (IF req.options.sort_by \in MetadataSorts
                          THEN <<Called("mget", 0, TRUE)>> ELSE <<>>)
    /\ video_ids' = get_paginated_video_ids(corpus, buckets', req.page * req.page_size,
                                            req.page_size, req.options)
    /\ IF video_ids' = <<>>
       THEN /\ Respond(results)
            /\ collected' = collected
            /\ UNCHANGED cursor
       ELSE /\ pc' = "fetch"
            /\ cursor' = 1
            /\ UNCHANGED <<collected, response>>
    /\ UNCHANGED <<corpus, req, total_counts, results>>
    /\ UNCHANGED <<truncVars, unitVars, serviceVars>>

\* A failed aggregation taken for an empty list of buckets.
AggregateFailAsEmpty ==
    /\ pc = "aggregate"
    /\ calls' = Append(calls, Called("aggregate", 0, FALSE))
    /\ Respond(<<>>)
    /\ UNCHANGED <<corpus, buckets, req, total_counts, video_ids, results, cursor,
                   collected>>
    /\ UNCHANGED <<truncVars, unitVars, serviceVars>>

\* lines 226-233
AggregateFail ==
    /\ pc = "aggregate"
    /\ Fail("aggregate", 0, "Elasticsearch aggregation request failed")

\* lines 263-268, 364-371
MetadataFail ==
    /\ pc = "aggregate"
    /\ req.options.sort_by \in MetadataSorts
    /\ calls' = calls \o <<Called("aggregate", 0, TRUE), Called("mget", 0, FALSE)>>
    /\ response' = Err("Failed to fetch video metadata")
    /\ pc' = "done"
    /\ UNCHANGED <<corpus, buckets, req, total_counts, video_ids, results, cursor,
                   collected>>
    /\ UNCHANGED <<truncVars, unitVars, serviceVars>>

\* lines 108-113 with the captions of a video put in front of the earlier ones
FetchVideoOkPrepends ==
    /\ pc = "fetch"
    /\ results' = get_all_captions_for_video(corpus, video_ids[cursor]) \o results
    /\ calls' = Append(calls, Called("fetch", video_ids[cursor], TRUE))
    /\ IF cursor < Len(video_ids)
       THEN /\ cursor' = cursor + 1
            /\ UNCHANGED <<pc, collected, response>>
       ELSE IF results' = <<>>
       THEN /\ Respond(results')
            /\ collected' = collected \o video_ids
            /\ UNCHANGED cursor
       ELSE /\ pc' = "neighbors"
            /\ cursor' = 1
            /\ UNCHANGED <<collected, response>>
    /\ UNCHANGED <<corpus, buckets, req, total_counts, video_ids>>
    /\ UNCHANGED <<truncVars, unitVars, serviceVars>>

\* lines 109-113
FetchVideoOk ==
    /\ pc = "fetch"
    /\ results' = results \o get_all_captions_for_video(corpus, video_ids[cursor])
    /\ calls' = Append(calls, Called("fetch", video_ids[cursor], TRUE))
    /\ IF cursor < Len(video_ids)
       THEN /\ cursor' = cursor + 1
            /\ UNCHANGED <<pc, collected, response>>
       ELSE IF results' = <<>>
       THEN /\ Respond(results')
            /\ collected' = collected \o video_ids
            /\ UNCHANGED cursor
       ELSE /\ pc' = "neighbors"
            /\ cursor' = 1
            /\ UNCHANGED <<collected, response>>
    /\ UNCHANGED <<corpus, buckets, req, total_counts, video_ids>>
    /\ UNCHANGED <<truncVars, unitVars, serviceVars>>

\* lines 110-111, 467-475: get_all_captions_for_video(..).await?
FetchVideoFail ==
    /\ pc = "fetch"
    /\ Fail("fetch", video_ids[cursor], "Elasticsearch video captions request failed")

\* lines 116-138 for the result at `cursor`, and 140-149 after the last one
StitchResult(neighbors, ok) ==
    /\ pc = "neighbors"
    /\ results' = [results EXCEPT
                      ![cursor].snippet_html = StitchedSnippet(@, neighbors)]
    /\ calls' = Append(calls, Called("neighbors", cursor, ok))
    /\ IF cursor < Len(results)
       THEN /\ cursor' = cursor + 1
            /\ UNCHANGED <<pc, collected, response>>
       ELSE /\ Respond(results')
            /\ collected' = collected \o video_ids
            /\ UNCHANGED cursor
    /\ UNCHANGED <<corpus, buckets, req, total_counts, video_ids>>
    /\ UNCHANGED <<truncVars, unitVars, serviceVars>>

NeighborsOk ==
    /\ pc = "neighbors"
    /\ StitchResult(fetch_neighbors_for_hit(corpus, results[cursor].video_id,
                                            results[cursor].start_time,
                                            results[cursor].end_time,
                                            DEFAULT_NEIGHBORS_BEFORE,
                                            DEFAULT_NEIGHBORS_AFTER), TRUE)

\* The neighbor call's error returned with the ? operator.
NeighborsFailAborts ==
    /\ pc = "neighbors"
    /\ Cardinality(FailedCalls) < MaxFailedCalls
    /\ Fail("neighbors", cursor, "Elasticsearch window search failed")

\* lines 125-126, 679-687: .await.unwrap_or_default()
NeighborsFail ==
    /\ pc = "neighbors"
    /\ Cardinality(FailedCalls) < MaxFailedCalls
    /\ StitchResult(<<<<>>, <<>>>>, FALSE)

Next ==
    \/ StartSearch
    \/ CountOk
    \/ CountFail
    \/ AggregateOk
    \/ AggregateFail
    \/ MetadataFail
    \/ FetchVideoOk
    \/ FetchVideoFail
    \/ NeighborsOk
    \/ NeighborsFail

Spec == Init /\ [][Next]_vars

\* The request ended with a SearchResponse.
Answered == pc = "done" /\ response.kind = "Ok"

NoDuplicates(seq) == \A i, j \in DOMAIN seq : seq[i] = seq[j] => i = j

ResultsOf(res, v) == {k \in DOMAIN res : res[k].video_id = v}

PageIsOverVideos ==
    Answered =>
        /\ Cardinality({response.results[k].video_id : k \in DOMAIN response.results})
              <= response.page_size
        /\ Len(video_ids) <= response.page_size
        /\ NoDuplicates(video_ids)
        /\ \A v \in DOMAIN corpus :
              Cardinality(ResultsOf(response.results, v)) =
                  IF v \in Range(video_ids) THEN corpus[v].match_count ELSE 0

\* A full page whose results outnumber page_size.
PageIsOverVideosWitness ==
    /\ Answered
    /\ Len(video_ids) = response.page_size
    /\ Len(response.results) > response.page_size

FetchFailureIsLocal ==
    (pc = "done" /\ \E i \in FailedCalls : calls[i].call = "fetch") =>
        /\ response.kind = "Ok"
        /\ \A v \in Range(video_ids) :
              Cardinality(ResultsOf(response.results, v)) =
                  IF Called("fetch", v, FALSE) \in Range(calls) THEN 0
                  ELSE corpus[v].match_count

(***************************************************************************)
(* C7.  When the neighbor call fails for one result, the request still     *)
(* ends with a SearchResponse; that result's snippet is its (cleaned)      *)
(* anchor snippet without neighbor text, and every other result is what it *)
(* is when its neighbor call succeeds.                                     *)
(***************************************************************************)
RECURSIVE Fetched(_, _)
Fetched(ids, n) ==
    IF n = 0 THEN <<>>
    ELSE Fetched(ids, n - 1) \o get_all_captions_for_video(corpus, ids[n])

NeighborFailureIsLocal ==
    (pc = "done" /\ \E i \in FailedCalls : calls[i].call = "neighbors") =>
        /\ response.kind = "Ok"
        /\ LET anchors == Fetched(video_ids, Len(video_ids))
           IN  /\ Len(response.results) = Len(anchors)
               /\ \A k \in DOMAIN anchors :
                     response.results[k].snippet_html =
                         IF Called("neighbors", k, FALSE) \in Range(calls)
                         THEN clean_caption_text(anchors[k].snippet_html)
                         ELSE StitchedSnippet(
                                  anchors[k].snippet_html,
                                  fetch_neighbors_for_hit(
                                      corpus, anchors[k].video_id,
                                      anchors[k].start_time, anchors[k].end_time,
                                      DEFAULT_NEIGHBORS_BEFORE, DEFAULT_NEIGHBORS_AFTER))

\* Of two results the first lost its neighbors and kept its anchor, the
\* second was stitched with its neighbors.
NeighborFailureIsLocalWitness ==
    /\ Answered
    /\ Len(response.results) >= 2
    /\ Called("neighbors", 1, FALSE) \in Range(calls)
    /\ response.results[1].snippet_html = Highlighted(<<"x">>)
    /\ Occurrences(response.results[2].snippet_html, <<"h", "i">>) = 1
    /\ Occurrences(response.results[2].snippet_html, <<Ellipsis>>) >= 1

(***************************************************************************)
(* C11.  When the aggregation returns zero groups (and no call failed) the *)
(* request ends with a SearchResponse whose results are empty and whose    *)
(* total_pages is 0, and neither a per-video fetch nor a neighbor call was *)
(* made.                                                                   *)
(***************************************************************************)
EmptyResultIsNotAnError ==
    ( /\ pc = "done"
      /\ Called("aggregate", 0, TRUE) \in Range(calls)
      /\ FailedCalls = {}
      /\ buckets = <<>> )
    => /\ response.kind = "Ok"
       /\ response.results = <<>>
       /\ response.total_pages = 0
       /\ response.total_videos = 0
       /\ \A i \in DOMAIN calls : calls[i].call \notin {"fetch", "neighbors"}

\* An empty index was searched with a metadata sort: count, aggregation and
\* mget were called, nothing else, and the caller got the empty response.
EmptyResultIsNotAnErrorWitness ==
    /\ pc = "done"
    /\ corpus = <<>>
    /\ req.options.sort_by = "Views"
    /\ calls = <<Called("count", 0, TRUE), Called("aggregate", 0, TRUE),
                 Called("mget", 0, TRUE)>>
    /\ response = SearchResponse(<<>>, <<0, 0>>, 0, req.page_size)
    /\ response.total_pages = 0

(***************************************************************************)
(* SpecPages: the page arithmetic of search_captions_with_pagination       *)
(* (search_service.rs:140-149) on the counts get_total_counts can return,  *)
(* small ones and ones around 2^24, where `as f32` stops being exact.      *)
(***************************************************************************)
MaxCount == 12
NearLimit == 3
MaxWidePageSize == 4

PageCounts ==
    (0..MaxCount) \cup
        {Pow2(F32SignificandBits) + d - 1 : d \in 0..(NearLimit + 1)}

InitPages ==
    /\ corpus = <<>>
    /\ pc = "pages"
    /\ buckets = <<>>
    /\ \E total_videos \in PageCounts : total_counts = <<total_videos, total_videos>>
    /\ \E page_size \in 1..MaxWidePageSize, page \in 0..1 :
          req = [NoRequest EXCEPT !.page = page, !.page_size = page_size]
    /\ video_ids = <<>>
    /\ results = <<>>
    /\ cursor = 0
    /\ calls = <<>>
    /\ collected = <<>>
    /\ response = NoResponse
    /\ TruncIdle
    /\ ServiceIdle
    /\ UnitIdle

\* lines 140-149
BuildResponse ==
    /\ pc = "pages"
    /\ response' = SearchResponse(results, total_counts, req.page, req.page_size)
    /\ pc' = "paged"
    /\ UNCHANGED <<corpus, buckets, req, total_counts, video_ids, results, cursor,
                   calls, collected>>
    /\ UNCHANGED <<truncVars, unitVars, serviceVars>>

NextPages == BuildResponse

SpecPages == InitPages /\ [][NextPages]_vars

(***************************************************************************)
(* C12.  total_pages of a response is ceil(total_videos / page_size), and  *)
(* total_videos is the count get_total_counts returned, whatever the page. *)
(***************************************************************************)
TotalPagesIsCeiling ==
    pc = "paged" =>
        /\ response.total_videos = total_counts[1]
        /\ response.total_pages =
              (total_counts[1] + req.page_size - 1) \div req.page_size

(***************************************************************************)
(* SpecStitch: stitch_with_neighbors_enhanced (search_service.rs:801-827)  *)
(* applied to bounded blocks: empty, plain, with and without punctuation   *)
(* at the junction, whitespace only, with a highlight.                     *)
(***************************************************************************)
StitchPrevs ==
    { <<>>, <<"a">>, <<"a", ".">>, <<"a", ":">>, <<" ">>, <<"a", " ", "b">> }

StitchAnchors ==
    { <<>>, <<"x">>, Highlighted(<<"x">>), <<" ", "x", " ", " ", "y", " ">> }

StitchNexts ==
    { <<>>, <<"b">>, <<".", "b">>, <<",", "b">>, <<" ">> }

InitStitch ==
    /\ blocks \in [prev : StitchPrevs, anchor_html : StitchAnchors, next : StitchNexts]
    /\ pc = "stitch"
    /\ corpus = <<>>
    /\ SearchIdle
    /\ TruncIdle
    /\ ServiceIdle
    /\ index_hits = <<>>
    /\ window_hits = <<>>
    /\ anchor = NoAnchor
    /\ split = <<<<>>, <<>>>>
    /\ query = <<>>

Stitch ==
    /\ pc = "stitch"
    /\ out' = stitch_with_neighbors_enhanced(blocks.prev, blocks.anchor_html, blocks.next)
    /\ pc' = "stitched"
    /\ UNCHANGED <<corpus, s, max_chars>>
    /\ UNCHANGED requestVars
    /\ UNCHANGED <<unitVars, serviceVars>>

NextStitch == Stitch

SpecStitch == InitStitch /\ [][NextStitch]_vars

(***************************************************************************)
(* C13.  Stitching an anchor with empty prev and empty next returns the    *)
(* cleaned anchor text and nothing else: no ellipsis, no space added.      *)
(***************************************************************************)
StitchOfAnchorAlone ==
    (pc = "stitched" /\ blocks.prev = <<>> /\ blocks.next = <<>>) =>
        /\ out = clean_caption_text(blocks.anchor_html)
        /\ Occurrences(out, <<Ellipsis>>) = 0

\* An anchor with surrounding and doubled spaces was stitched alone.
StitchOfAnchorAloneWitness ==
    /\ pc = "stitched"
    /\ blocks = [prev |-> <<>>, anchor_html |-> <<" ", "x", " ", " ", "y", " ">>,
                 next |-> <<>>]
    /\ out = <<"x", " ", "y">>

IsPrefix(part, txt) ==
    Len(part) <= Len(txt) /\ SubSeq(txt, 1, Len(part)) = part

IsSuffix(part, txt) ==
    Len(part) <= Len(txt) /\ SubSeq(txt, Len(txt) - Len(part) + 1, Len(txt)) = part

\* prev needs an ellipsis: it is there and does not end with punctuation.
PrevIsOpen ==
    LET prev_clean == clean_caption_text(blocks.prev)
    IN  /\ blocks.prev # <<>>
        /\ ~(prev_clean # <<>> /\ prev_clean[Len(prev_clean)] \in {".", "!", "?", ":"})

\* next needs an ellipsis: it is there and does not start with punctuation.
NextIsOpen ==
    LET next_clean == clean_caption_text(blocks.next)
    IN  /\ blocks.next # <<>>
        /\ ~(next_clean # <<>> /\ next_clean[1] \in {".", ",", "!", "?", ":"})

\* An ellipsis with the separating space on either side, on both or on none.
EllipsisJunctions ==
    { <<Ellipsis>>, <<Ellipsis, " ">>, <<" ", Ellipsis>>, <<" ", Ellipsis, " ">> }

(***************************************************************************)
(* C19.  The output holds one ellipsis for prev exactly when prev is there *)
(* and does not end with punctuation, and one for next exactly when next   *)
(* is there and does not start with punctuation; the ellipsis for prev     *)
(* lies between the text of prev and the anchor, the ellipsis for next     *)
(* between the anchor and the text of next.                                *)
(***************************************************************************)
EllipsisAtJunction ==
    pc = "stitched" =>
        LET prev_clean == clean_caption_text(blocks.prev)
            anchor_clean == clean_caption_text(blocks.anchor_html)
            next_clean == clean_caption_text(blocks.next)
        IN  /\ Occurrences(out, <<Ellipsis>>) =
                  (IF PrevIsOpen THEN 1 ELSE 0) + (IF NextIsOpen THEN 1 ELSE 0)
            /\ PrevIsOpen =>
                  \E junction \in EllipsisJunctions :
                      IsPrefix(prev_clean \o junction \o anchor_clean, out)
            /\ NextIsOpen =>
                  \E junction \in EllipsisJunctions :
                      IsSuffix(anchor_clean \o junction \o next_clean, out)

(***************************************************************************)
(* C20.  The output is the non-empty ones of the three blocks (prev and    *)
(* next with their ellipsis, the cleaned anchor) joined by one space: it   *)
(* neither starts nor ends with a space and holds no doubled space, also   *)
(* when the anchor is empty.                                               *)
(***************************************************************************)
SingleSpaceJoin ==
    pc = "stitched" =>
        LET prev_clean == clean_caption_text(blocks.prev)
            next_clean == clean_caption_text(blocks.next)
            prev_block == IF blocks.prev = <<>> THEN <<>>
                          ELSE IF PrevIsOpen THEN <<Ellipsis>> \o prev_clean
                          ELSE prev_clean
            next_block == IF blocks.next = <<>> THEN <<>>
                          ELSE IF NextIsOpen THEN next_clean \o <<Ellipsis>>
                          ELSE next_clean
            kept == SelectSeq(<<prev_block, clean_caption_text(blocks.anchor_html),
                                next_block>>,
                              LAMBDA block : block # <<>>)
        IN  /\ out = JoinWithSpace(kept)
            /\ out # <<>> => (out[1] # " " /\ out[Len(out)] # " ")
            /\ Occurrences(out, <<" ", " ">>) = 0

(***************************************************************************)
(* SpecParse: process_search_response (search_service.rs:629-651) applied  *)
(* to the hits of a response.  A hit carries its _source and the list of   *)
(* highlight fragments of the text field, empty when the index sent none.  *)
(***************************************************************************)
MaxHits == 2

ParseFragments ==
    { <<>>,
      <<Highlighted(<<"x">>) \o <<" ", "y">>>>,
      <<Highlighted(<<"x">>), Highlighted(<<"y">>)>> }

ParseHits ==
    {[source |-> CaptionAt(v, position, <<"x", " ", "y">>), highlight |-> fragments] :
        v \in 1..2, position \in 0..1, fragments \in ParseFragments}

InitParse ==
    /\ index_hits \in UNION {[1..n -> ParseHits] : n \in 0..MaxHits}
    /\ pc = "parse"
    /\ corpus = <<>>
    /\ SearchIdle
    /\ TruncIdle
    /\ ServiceIdle
    /\ blocks = NoBlocks
    /\ window_hits = <<>>
    /\ anchor = NoAnchor
    /\ split = <<<<>>, <<>>>>
    /\ query = <<>>

ProcessResponse ==
    /\ pc = "parse"
    /\ results' = process_search_response(index_hits)
    /\ pc' = "parsed"
    /\ UNCHANGED <<corpus, buckets, req, total_counts, video_ids, cursor, calls,
                   collected, response>>
    /\ UNCHANGED <<truncVars, unitVars, serviceVars>>

NextParse == ProcessResponse

SpecParse == InitParse /\ [][NextParse]_vars

(***************************************************************************)
(* C14.  Every hit becomes a SearchResult, with or without highlight: the  *)
(* snippet is the first highlight fragment when there is one and the raw   *)
(* caption text otherwise.                                                 *)
(***************************************************************************)
MissingHighlightFallsBack ==
    pc = "parsed" =>
        /\ Len(results) = Len(index_hits)
        /\ \A k \in DOMAIN index_hits :
              /\ results[k].video_id = index_hits[k].source.video_id
              /\ results[k].start_time = index_hits[k].source.start_time
              /\ results[k].snippet_html =
                    IF index_hits[k].highlight = <<>>
                    THEN index_hits[k].source.text
                    ELSE index_hits[k].highlight[1]

\* Of two hits the first came without highlight and kept its raw text, the
\* second came with two fragments and shows the first.
MissingHighlightFallsBackWitness ==
    /\ pc = "parsed"
    /\ Len(index_hits) = 2
    /\ index_hits[1].highlight = <<>>
    /\ Len(index_hits[2].highlight) = 2
    /\ results[1].snippet_html = <<"x", " ", "y">>
    /\ results[2].snippet_html = Highlighted(<<"x">>)

(***************************************************************************)
(* SpecEndpoint: the search endpoint (api/search.rs:12-57) in front of the *)
(* pipeline.  A query is a sequence of characters; String::len() counts    *)
(* the bytes of its UTF-8 encoding.  "U+00FC" and "U+65E5" stand for a     *)
(* two-byte and a three-byte character.  The endpoint only ever asks for   *)
(* Relevance or CaptionMatches, so the metadata call is never made.        *)
(***************************************************************************)
PAGE_SIZE == 10

MIN_QUERY_SIZE == 3

MaxQueryChars == 3

QueryChars == {"a", "U+00FC", "U+65E5"}

Utf8Width(ch) ==
    CASE ch = "a" -> 1
      [] ch = "U+00FC" -> 2
      [] ch = "U+65E5" -> 3

\* String::len()
RECURSIVE StrLen(_)
StrLen(str) == IF str = <<>> THEN 0 ELSE Utf8Width(Head(str)) + StrLen(Tail(str))

Queries == UNION {[1..n -> QueryChars] : n \in 0..MaxQueryChars}

\* Only the empty query is too short.
QueryIsEmpty(str) == StrLen(str) = 0

\* api/search.rs:20
QueryTooShort(str) == StrLen(str) < MIN_QUERY_SIZE

\* api/search.rs:31-35
SortParam(sort) ==
    CASE sort = "relevance" -> "Relevance"
      [] sort = "caption_matches" -> "CaptionMatches"
      [] OTHER -> "Relevance"

ErrorResponse(error) == [kind |-> "ErrorResponse", error |-> error]

InitEndpoint ==
    /\ corpus \in {c \in SearchCorpora : Len(c) <= 1}
    /\ query \in Queries
    /\ pc = "endpoint"
    /\ SearchIdle
    /\ TruncIdle
    /\ ServiceIdle
    /\ blocks = NoBlocks
    /\ index_hits = <<>>
    /\ window_hits = <<>>
    /\ anchor = NoAnchor
    /\ split = <<<<>>, <<>>>>

\* api/search.rs:12-45: up to the call of search_captions_with_pagination
SearchCaptions ==
    /\ pc = "endpoint"
    /\ IF QueryTooShort(query)
       THEN /\ response' = ErrorResponse("Query too short")
            /\ pc' = "rejected"
            /\ UNCHANGED req
       ELSE /\ \E sort \in {"none", "relevance", "caption_matches", "likes"},
                  page \in 0..1 :
                  req' = [NoRequest EXCEPT
                             !.page = page, !.page_size = PAGE_SIZE,
                             !.options = [sort_by |-> SortParam(sort),
                                          sort_order |-> "Desc"]]
            /\ pc' = "count"
            /\ UNCHANGED response
    /\ UNCHANGED <<corpus, buckets, total_counts, video_ids, results, cursor, calls,
                   collected>>
    /\ UNCHANGED <<truncVars, unitVars, serviceVars>>

\* api/search.rs:45-56: the pipeline's result becomes the HTTP answer
Reply ==
    /\ pc = "done"
    /\ response' = IF response.kind = "Ok" THEN response
                   ELSE ErrorResponse("Internal server error")
    /\ pc' = "replied"
    /\ UNCHANGED <<corpus, buckets, req, total_counts, video_ids, results, cursor,
                   calls, collected>>
    /\ UNCHANGED <<truncVars, unitVars, serviceVars>>

NextEndpoint ==
    \/ SearchCaptions
    \/ CountOk
    \/ CountFail
    \/ AggregateOk
    \/ AggregateFail
    \/ FetchVideoOk
    \/ FetchVideoFail
    \/ NeighborsOk
    \/ NeighborsFail
    \/ Reply

SpecEndpoint == InitEndpoint /\ [][NextEndpoint]_vars

MaxNeighbors == 2

Drift == 5

StartGrid ==
    {0, CaptionPace, CaptionPace + Drift, 2 * CaptionPace, 3 * CaptionPace,
     4 * CaptionPace}

AnchorStarts == {CaptionPace, CaptionPace + Drift, CaptionPace + CaptionPace \div 2}

WindowCaption(t) ==
    [video_id |-> 1, text |-> <<"c">>, start_time |-> t, end_time |-> t + CaptionLength]

\* The captions starting at the times of T, ascending.
RECURSIVE AscendingCaptions(_)
AscendingCaptions(T) ==
    IF T = {} THEN <<>>
    ELSE LET t == CHOOSE x \in T : \A y \in T : x <= y
         IN  <<WindowCaption(t)>> \o AscendingCaptions(T \ {t})

InitNeighbors ==
    /\ \E T \in SUBSET StartGrid : window_hits = AscendingCaptions(T)
    /\ \E t \in AnchorStarts, before \in 0..MaxNeighbors, after \in 0..MaxNeighbors :
          anchor = [start_time |-> t, end_time |-> t + CaptionLength,
                    before |-> before, after |-> after]
    /\ split = <<<<>>, <<>>>>
    /\ pc = "window"
    /\ corpus = <<>>
    /\ SearchIdle
    /\ TruncIdle
    /\ ServiceIdle
    /\ blocks = NoBlocks
    /\ index_hits = <<>>
    /\ query = <<>>

\* lines 689-746: Ok((prev_captions, next_captions))
FetchNeighbors ==
    /\ pc = "window"
    /\ split' = SplitNeighbors(window_hits, anchor.start_time, anchor.end_time,
                               anchor.before, anchor.after)
    /\ pc' = "split"
    /\ UNCHANGED <<corpus, blocks, index_hits, window_hits, anchor, query>>
    /\ UNCHANGED requestVars
    /\ UNCHANGED <<truncVars, serviceVars>>

NextNeighbors == FetchNeighbors

SpecNeighbors == InitNeighbors /\ [][NextNeighbors]_vars

\* The positions of the window captions that start within 0.1 s of the anchor.
NearAnchor ==
    {i \in DOMAIN window_hits :
        Abs(window_hits[i].start_time - anchor.start_time) < AnchorEpsilon}

IsAscending(captions) ==
    \A i \in 1..(Len(captions) - 1) :
        captions[i].start_time < captions[i + 1].start_time

(***************************************************************************)
(* C16.  When a caption of the window starts within 0.1 s of the anchor,   *)
(* prev is the run of captions that ends just before the first such        *)
(* caption and next the run that starts just after it, at array positions  *)
(* without gap, ascending, `before` and `after` long unless the list ends. *)
(***************************************************************************)
AnchorFoundNeighbors ==
    (pc = "split" /\ NearAnchor # {}) =>
        LET i == CHOOSE n \in NearAnchor : \A j \in NearAnchor : n <= j
            prev_captions == split[1]
            next_captions == split[2]
        IN  /\ Len(prev_captions) = Min(anchor.before, i - 1)
            /\ Len(next_captions) = Min(anchor.after, Len(window_hits) - i)
            /\ \A k \in DOMAIN prev_captions :
                  prev_captions[k] = window_hits[i - Len(prev_captions) + k - 1]
            /\ \A k \in DOMAIN next_captions :
                  next_captions[k] = window_hits[i + k]
            /\ IsAscending(prev_captions)
            /\ IsAscending(next_captions)

\* Two captions start within 0.1 s of the anchor and the first of them was
\* taken for it: prev is the one caption before it, where the list begins,
\* next the two captions after it.
AnchorFoundNeighborsWitness ==
    /\ pc = "split"
    /\ Len(window_hits) = 6
    /\ anchor.start_time = CaptionPace + Drift
    /\ anchor.before = 2
    /\ anchor.after = 2
    /\ NearAnchor = {2, 3}
    /\ split[1] = SubSeq(window_hits, 1, 1)
    /\ split[2] = SubSeq(window_hits, 3, 4)

(***************************************************************************)
(* C17.  When no caption of the window starts within 0.1 s of the anchor,  *)
(* prev is the last `before` of the captions that start before             *)
(* anchor_start and next the first `after` of those that start after       *)
(* anchor_end; a caption that starts within the anchor is in neither.      *)
(***************************************************************************)
AnchorNotFoundNeighbors ==
    (pc = "split" /\ NearAnchor = {}) =>
        LET earlier == SelectSeq(window_hits,
                                 LAMBDA cap : cap.start_time < anchor.start_time)
            later == SelectSeq(window_hits,
                               LAMBDA cap : cap.start_time > anchor.end_time)
            prev_captions == split[1]
            next_captions == split[2]
        IN  /\ Len(prev_captions) = Min(anchor.before, Len(earlier))
            /\ Len(next_captions) = Min(anchor.after, Len(later))
            /\ \A k \in DOMAIN prev_captions :
                  prev_captions[k] = earlier[Len(earlier) - Len(prev_captions) + k]
            /\ \A k \in DOMAIN next_captions : next_captions[k] = later[k]
            /\ \A cap \in Range(window_hits) :
                  ( /\ cap.start_time >= anchor.start_time
                    /\ cap.start_time <= anchor.end_time )
                  => cap \notin Range(prev_captions) \cup Range(next_captions)

\* The anchor starts between two captions; of the three earlier captions
\* the last two were taken, the caption that starts within the anchor was
\* left out, and the two captions after the anchor were taken.
AnchorNotFoundNeighborsWitness ==
    /\ pc = "split"
    /\ Len(window_hits) = 6
    /\ NearAnchor = {}
    /\ anchor.before = 2
    /\ anchor.after = 2
    /\ split[1] = SubSeq(window_hits, 2, 3)
    /\ split[2] = SubSeq(window_hits, 5, 6)

(***************************************************************************)
(* SpecClean: clean_caption_text applied to every text of at most          *)
(* MaxCleanLen characters over letters, spaces and the four punctuation    *)
(* marks the function looks for.                                           *)
(***************************************************************************)
MaxCleanLen == 5

CleanChars == {"a", " ", ",", ".", "?", "!"}

CleanInputs == UNION {[1..n -> CleanChars] : n \in 0..MaxCleanLen}

InitClean ==
    /\ s \in CleanInputs
    /\ max_chars = 0
    /\ out = <<>>
    /\ pc = "clean"
    /\ corpus = <<>>
    /\ SearchIdle
    /\ UnitIdle
    /\ ServiceIdle

Clean ==
    /\ pc = "clean"
    /\ out' = clean_caption_text(s)
    /\ pc' = "cleaned"
    /\ UNCHANGED <<s, max_chars, corpus>>
    /\ UNCHANGED requestVars
    /\ UNCHANGED <<unitVars, serviceVars>>

NextClean == Clean

SpecClean == InitClean /\ [][NextClean]_vars

Punctuation == {",", ".", "?", "!"}

\* C21: the cleaned text has no two consecutive spaces and no space right
\* before ',', '.', '?' or '!', and cleaning it again changes nothing.
CleanedTextIsTidy ==
    pc = "cleaned" =>
        /\ \A i \in 1..(Len(out) - 1) :
              out[i] = " " => out[i + 1] \notin ({" "} \cup Punctuation)
        /\ clean_caption_text(out) = out

(***************************************************************************)
(* C22.  An input longer than max_chars without a complete pre_tag ...     *)
(* post_tag pair comes back as a head prefix of the input, right-trimmed,  *)
(* followed by one ellipsis, in at most max_chars characters.              *)
(***************************************************************************)
TruncatedFromHead ==
    /\ pc = "truncated"
    /\ Len(s) > max_chars
    /\ ~FirstHighlight(s, PRE_TAG, POST_TAG).found

HeadTruncationFallback ==
    TruncatedFromHead =>
        /\ Len(out) >= 1
        /\ Len(out) <= max_chars
        /\ out[Len(out)] = Ellipsis
        /\ LET head == SubSeq(out, 1, Len(out) - 1)
           IN  /\ IsPrefix(head, s)
               /\ head # <<>> => ~IsWhitespace(head[Len(head)])
               /\ \/ Len(head) = Min(Len(s), SaturatingSub(max_chars, 2))
                  \/ IsWhitespace(s[Len(head) + 1])

\* A text without tags whose first max_chars - 2 characters ended in a
\* space: the space was trimmed before the ellipsis was appended.
HeadTruncationFallbackWitness ==
    /\ TruncatedFromHead
    /\ max_chars > 2
    /\ Len(out) >= 2
    /\ Len(out) < SaturatingSub(max_chars, 2) + 1

(***************************************************************************)
(* C25.  When the window holds the anchor caption (captions of one video,  *)
(* pairwise distinct start times), every caption of prev starts before the *)
(* anchor and every caption of next after it, so the anchor is in neither. *)
(***************************************************************************)
StartTimes(captions) == {captions[i].start_time : i \in DOMAIN captions}

AnchorNotInNeighbors ==
    (pc = "split" /\ anchor.start_time \in StartTimes(window_hits)) =>
        /\ \A t \in StartTimes(split[1]) : t < anchor.start_time
        /\ \A t \in StartTimes(split[2]) : t > anchor.start_time

(***************************************************************************)
(* C26.  In a response the results of one video are contiguous and the     *)
(* videos come in the order of the ranked page: the results are the        *)
(* captions fetched for the first video of the page, then those of the     *)
(* second, and so on, and no result belongs to a video outside the page.   *)
(***************************************************************************)
\* frontend/src/search/components.rs:197-214: the video of each group the
\* result list opens, a new group whenever the video_id changes
GroupedVideos(res) ==
    LET heads == SelectSeq([k \in DOMAIN res |-> k],
                           LAMBDA k : k = 1 \/ res[k].video_id # res[k - 1].video_id)
    IN  [g \in DOMAIN heads |-> res[heads[g]].video_id]

CaptionKeys(res) == [k \in DOMAIN res |-> <<res[k].video_id, res[k].start_time>>]

ResultsGroupedInRankOrder ==
    Answered =>
        /\ \A k \in DOMAIN response.results :
              response.results[k].video_id \in Range(video_ids)
        /\ GroupedVideos(response.results) =
              SelectSeq(video_ids,
                        LAMBDA v : get_all_captions_for_video(corpus, v) # <<>>)
        /\ \A v \in Range(video_ids) :
              SelectSeq(CaptionKeys(response.results), LAMBDA key : key[1] = v) =
                  CaptionKeys(get_all_captions_for_video(corpus, v))

\* A page of two videos, the first with two matching captions: three
\* results in two groups.
ResultsGroupedInRankOrderWitness ==
    /\ Answered
    /\ Len(video_ids) = 2
    /\ Len(response.results) >= 3
    /\ response.results[1].video_id = video_ids[1]
    /\ response.results[2].video_id = video_ids[1]
    /\ Len(GroupedVideos(response.results)) = 2

(***************************************************************************)
(* SpecPlan: the query bodies one request sends to the captions index.     *)
(* The clause of build_main_query_by_type is a record with the keys of the *)
(* JSON value; a boost is written in tenths (4.0 is 40, 2.5 is 25) and the *)
(* key "text.stemmed" as text_stemmed.                                     *)
(***************************************************************************)
None == [is_some |-> FALSE]

Some(value) == [is_some |-> TRUE, value |-> value]

UnwrapOr(opt, default) == IF opt.is_some THEN opt.value ELSE default

\* line 512 with "0" (no edit distance) for an unset fuzzy_distance
FuzzySettingDefaultsToZero(options) == UnwrapOr(options.fuzzy_distance, "0")

\* line 512
fuzzy_setting(options) == UnwrapOr(options.fuzzy_distance, "AUTO")

\* lines 481-586
build_main_query_by_type(query_string, options) ==
    IF options.search_type = "Natural"
    THEN [bool |-> [
            should |-> <<
                [match_phrase |-> [text |-> [query |-> query_string, boost |-> 30]]],
                [match_phrase |-> [text_stemmed |->
                    [query |-> query_string, boost |-> 10, slop |-> 0]]] >>,
            minimum_should_match |-> 1]]
    ELSE [bool |-> [
            should |-> <<
                [match_phrase |-> [text |-> [query |-> query_string, boost |-> 40]]],
                [match_phrase |-> [text |->
                    [query |-> query_string, slop |-> 3, boost |-> 30]]],
                [multi_match |-> [query |-> query_string,
                                  fields |-> <<"text^2", "text.stemmed">>,
                                  type |-> "best_fields",
                                  operator |-> "and",
                                  boost |-> 25]],
                [multi_match |-> [query |-> query_string,
                                  fields |-> <<"text^1.5", "text.stemmed">>,
                                  type |-> "best_fields",
                                  operator |-> "and",
                                  fuzziness |-> fuzzy_setting(options),
                                  boost |-> 20]],
                [multi_match |-> [query |-> query_string,
                                  fields |-> <<"text", "text.stemmed">>,
                                  type |-> "best_fields",
                                  operator |-> "or",
                                  minimum_should_match |-> "75%",
                                  boost |-> 15]],
                [multi_match |-> [query |-> query_string,
                                  fields |-> <<"text", "text.stemmed">>,
                                  type |-> "best_fields",
                                  operator |-> "or",
                                  fuzziness |-> fuzzy_setting(options),
                                  minimum_should_match |-> "50%",
                                  boost |-> 10]] >>,
            minimum_should_match |-> 1]]

SearchOptions_natural(sort_by, sort_order) ==
    [search_type |-> "Natural", fuzzy_distance |-> None,
     sort_by |-> sort_by, sort_order |-> sort_order]

\* lines 160-175: the body of the count request
TotalCountsQueryBody(query_string, options) ==
    [size |-> 0,
     query |-> build_main_query_by_type(query_string, options),
     aggs |-> {"unique_videos", "total_captions"}]

\* lines 207-224: the body of the ranking aggregation
PaginatedVideoIdsQueryBody(query_string, options) ==
    [size |-> 0,
     query |-> build_main_query_by_type(query_string, options),
     aggs |-> {"unique_videos"}]

\* lines 438-465 with the phrase clauses of Natural mode as highlight_query
CaptionsBodyHighlightsPhrases(query_string, video_id, options) ==
    LET main_query == build_main_query_by_type(query_string, options)
    IN  [size |-> 1000,
         query |-> [bool |-> [must |-> <<main_query, [term |-> [video_id |-> video_id]]>>]],
         highlight |-> [pre_tags |-> <<PRE_TAG>>,
                        post_tags |-> <<POST_TAG>>,
                        highlight_query |->
                            build_main_query_by_type(query_string,
                                SearchOptions_natural(options.sort_by, options.sort_order)),
                        require_field_match |-> TRUE]]

\* lines 421-465: the body of the per-video fetch
CaptionsQueryBody(query_string, video_id, options) ==
    LET main_query == build_main_query_by_type(query_string, options)
    IN  [size |-> 1000,
         query |-> [bool |-> [must |-> <<main_query, [term |-> [video_id |-> video_id]]>>]],
         highlight |-> [pre_tags |-> <<PRE_TAG>>,
                        post_tags |-> <<POST_TAG>>,
                        highlight_query |-> main_query,
                        require_field_match |-> TRUE]]

PlanQueries == {"hello world", "rust"}

FuzzyDistances == {None, Some("AUTO"), Some("1")}

PlanOptions ==
    [search_type : SearchType, fuzzy_distance : FuzzyDistances,
     sort_by : {"Relevance", "CaptionMatches"}, sort_order : {"Desc"}]

\* The pages the ranking step may come back with.
PlanPages ==
    {page \in UNION {[1..n -> 1..MaxVideos] : n \in 0..MaxPageSize} : NoDuplicates(page)}

Sent(call, request_body) == [call |-> call, body |-> request_body]

InitPlan ==
    /\ req \in [query_string : PlanQueries, options : PlanOptions]
    /\ pc = "plan_count"
    /\ corpus = <<>>
    /\ buckets = <<>>
    /\ total_counts = <<0, 0>>
    /\ video_ids = <<>>
    /\ results = <<>>
    /\ cursor = 0
    /\ calls = <<>>
    /\ collected = <<>>
    /\ response = NoResponse
    /\ TruncIdle
    /\ UnitIdle
    /\ ServiceIdle

\* get_total_counts, lines 158-184: the request it sends
SendCount ==
    /\ pc = "plan_count"
    /\ calls' = Append(calls, Sent("count", TotalCountsQueryBody(req.query_string, req.options)))
    /\ pc' = "plan_ranking"
    /\ UNCHANGED <<corpus, buckets, req, total_counts, video_ids, results, cursor,
                   collected, response>>
    /\ UNCHANGED <<truncVars, unitVars, serviceVars>>

\* get_paginated_video_ids, lines 205-234: the request it sends; the page
\* that comes back is any page
SendRanking ==
    /\ pc = "plan_ranking"
    /\ calls' = Append(calls, Sent("aggregate",
                                   PaginatedVideoIdsQueryBody(req.query_string, req.options)))
    /\ video_ids' \in PlanPages
    /\ cursor' = 1
    /\ pc' = IF video_ids' = <<>> THEN "planned" ELSE "plan_fetch"
    /\ UNCHANGED <<corpus, buckets, req, total_counts, results, collected, response>>
    /\ UNCHANGED <<truncVars, unitVars, serviceVars>>

\* get_all_captions_for_video, lines 421-475: the request it sends for the
\* video at `cursor`
SendFetch ==
    /\ pc = "plan_fetch"
    /\ calls' = Append(calls, Sent("fetch",
                                   CaptionsQueryBody(req.query_string, video_ids[cursor],
                                                     req.options)))
    /\ cursor' = cursor + 1
    /\ pc' = IF cursor = Len(video_ids) THEN "planned" ELSE "plan_fetch"
    /\ UNCHANGED <<corpus, buckets, req, total_counts, video_ids, results, collected,
                   response>>
    /\ UNCHANGED <<truncVars, unitVars, serviceVars>>

NextPlan == SendCount \/ SendRanking \/ SendFetch

SpecPlan == InitPlan /\ [][NextPlan]_vars

\* The match clause a request carries: the whole query of the count and the
\* ranking request, the first `must` of the fetch.
MatchClause(sent) ==
    IF sent.call = "fetch" THEN sent.body.query.bool.must[1] ELSE sent.body.query

(***************************************************************************)
(* C23.  All the requests of one search carry the same match clause: the   *)
(* count and the ranking request as their query, each fetch as the first   *)
(* of two `must` clauses, the second being the term filter on its          *)
(* video_id, and as its highlight_query.                                   *)
(***************************************************************************)
ClauseReusedUnmodified ==
    /\ \A i, j \in DOMAIN calls : MatchClause(calls[i]) = MatchClause(calls[j])
    /\ \A i \in DOMAIN calls :
          calls[i].call = "fetch" =>
              /\ Len(calls[i].body.query.bool.must) = 2
              /\ calls[i].body.query.bool.must[2] = [term |-> [video_id |-> video_ids[i - 2]]]
              /\ calls[i].body.highlight.highlight_query = MatchClause(calls[1])

\* A Wide search that fetched a page of two videos.
ClauseReusedUnmodifiedWitness ==
    /\ pc = "planned"
    /\ req.options.search_type = "Wide"
    /\ Len(calls) = 4
    /\ calls[1].call = "count"
    /\ calls[2].call = "aggregate"
    /\ calls[3].call = "fetch"
    /\ calls[4].body.query.bool.must[2].term.video_id = video_ids[2]

\* The boost of one `should` clause, whichever kind it is.
BoostOf(clause) ==
    IF "multi_match" \in DOMAIN clause THEN clause.multi_match.boost
    ELSE clause.match_phrase.text.boost

WideRequestSent ==
    /\ calls # <<>>
    /\ req.options.search_type = "Wide"

\* What holds of the Wide clause whatever the number of its parts: boosts
\* strictly descending from the exact phrase to the fuzzy OR, at least one
\* part must match, fuzziness "AUTO" unless fuzzy_distance is set.
WideClauseShape(should, minimum_should_match) ==
    /\ minimum_should_match = 1
    /\ \A i \in 1..(Len(should) - 1) : BoostOf(should[i]) > BoostOf(should[i + 1])
    /\ should[1] = [match_phrase |-> [text |-> [query |-> req.query_string, boost |-> 40]]]
    /\ should[Len(should)].multi_match.operator = "or"
    /\ "fuzziness" \in DOMAIN should[Len(should)].multi_match
    /\ \A i \in DOMAIN should :
          ("multi_match" \in DOMAIN should[i]
              /\ "fuzziness" \in DOMAIN should[i].multi_match) =>
                  should[i].multi_match.fuzziness =
                      IF req.options.fuzzy_distance.is_some
                      THEN req.options.fuzzy_distance.value
                      ELSE "AUTO"

(***************************************************************************)
(* C24 as stated: the Wide clause is a disjunction of five clauses with    *)
(* strictly descending boosts, of which at least one must match, fuzzy     *)
(* with distance "AUTO" when fuzzy_distance is unset.                      *)
(***************************************************************************)
WideHasFiveClauses ==
    WideRequestSent =>
        LET main_query == MatchClause(calls[1])
        IN  /\ Len(main_query.bool.should) = 5
            /\ WideClauseShape(main_query.bool.should, main_query.bool.minimum_should_match)

(***************************************************************************)
(* C24, amended: the Wide clause is a disjunction of six clauses (the OR   *)
(* net comes twice: 75% of the terms without fuzziness, then 50% of them   *)
(* with fuzziness), boosts strictly descending, at least one must match,   *)
(* two fuzzy clauses with distance "AUTO" when fuzzy_distance is unset.    *)
(***************************************************************************)
WideHasSixClauses ==
    WideRequestSent =>
        LET main_query == MatchClause(calls[1])
            should == main_query.bool.should
        IN  /\ Len(should) = 6
            /\ WideClauseShape(should, main_query.bool.minimum_should_match)
            /\ Cardinality({i \in DOMAIN should :
                              /\ "multi_match" \in DOMAIN should[i]
                              /\ "fuzziness" \in DOMAIN should[i].multi_match}) = 2

\* A Wide request built with fuzzy_distance unset.
WideHasSixClausesWitness ==
    /\ WideRequestSent
    /\ req.options.fuzzy_distance = None
    /\ MatchClause(calls[1]).bool.should[4].multi_match.fuzziness = "AUTO"

(***************************************************************************)
(* SpecCrawl: the VideoQueue of services/crawler.rs under add_video and    *)
(* remove_item requests, the clock, and MaxJobs crawl jobs that the        *)
(* scheduler may start while an earlier one is still running.  Every       *)
(* method takes the mutex for its whole body, so each is one step; a job   *)
(* is interleaved between its pop and its mark_completed, where it awaits  *)
(* the metadata and the captions of the video.  added_at, an RFC 3339 time *)
(* with sub-second digits, is the number of the add_video call.            *)
(***************************************************************************)
MaxAdds == 3

MaxSeconds == 1

MaxBurst == 2

QueueVideos == {1, 2}

\* crawler.rs:31: format!("{}_{}", timestamp, video_id)
ItemId(timestamp, video_id) == <<timestamp, video_id>>

\* crawler.rs:31-39
QueueItem(video_id, timestamp, added_at) ==
    [id |-> ItemId(timestamp, video_id), video_id |-> video_id, status |-> "pending",
     added_at |-> added_at, processed_at |-> None, error_message |-> None]

\* crawler.rs:49-51 taking the item from the back of the deque
PopBack(q) ==
    [item |-> [q[Len(q)] EXCEPT !.status = "processing"],
     rest |-> SubSeq(q, 1, Len(q) - 1)]

\* crawler.rs:49-51: pop_front, and the status of the item handed out
PopFront(q) ==
    [item |-> [Head(q) EXCEPT !.status = "processing"], rest |-> Tail(q)]

\* crawler.rs:62-68, 74-80 and 95: the first item of the queue with this id
FirstWithId(q, id) ==
    LET hits == {i \in DOMAIN q : q[i].id = id}
    IN  IF hits = {} THEN 0 ELSE CHOOSE i \in hits : \A k \in hits : i <= k

\* crawler.rs:60-70
mark_completed(q, id, timestamp) ==
    LET i == FirstWithId(q, id)
    IN  IF i = 0 THEN q
        ELSE [q EXCEPT ![i].status = "completed", ![i].processed_at = Some(timestamp)]

\* crawler.rs:72-83
mark_failed(q, id, timestamp, error_message) ==
    LET i == FirstWithId(q, id)
    IN  IF i = 0 THEN q
        ELSE [q EXCEPT ![i].status = "failed", ![i].processed_at = Some(timestamp),
                       ![i].error_message = Some(error_message)]

InitCrawl ==
    /\ CrawlIdle
    /\ MonitorIdle
    /\ pc = "crawl"
    /\ corpus = <<>>
    /\ SearchIdle
    /\ TruncIdle
    /\ UnitIdle

\* What the queue operations leave alone.
crawlFrame == <<corpus, pc, requestVars, truncVars, unitVars, monitorVars>>

\* crawler.rs:29-45
AddVideo(v) ==
    /\ added < MaxAdds
    /\ queue' = Append(queue, QueueItem(v, now, added + 1))
    /\ added' = added + 1
    /\ UNCHANGED <<jobs, now, popped, removed>>
    /\ UNCHANGED crawlFrame

\* A second passes on the clock of chrono::Utc::now().
Tick ==
    /\ now < MaxSeconds
    /\ now' = now + 1
    /\ UNCHANGED <<queue, jobs, added, popped, removed>>
    /\ UNCHANGED crawlFrame

\* config.rs:67-76: the scheduler starts a job; on an empty queue it returns
\* at once
StartCrawl(j) ==
    /\ jobs[j].pc = "idle"
    /\ Len(queue) # 0
    /\ jobs' = [jobs EXCEPT ![j] = [pc |-> "pop", item |-> NoItem, count |-> 0]]
    /\ UNCHANGED <<queue, now, added, popped, removed>>
    /\ UNCHANGED crawlFrame

\* crawler.rs:303 and 47-58: while let Some(item) = pop_next_video()
PopNext(j) ==
    /\ jobs[j].pc = "pop"
    /\ IF queue = <<>>
       THEN /\ jobs' = [jobs EXCEPT ![j] = IdleJob]
            /\ UNCHANGED <<queue, popped>>
       ELSE /\ queue' = PopFront(queue).rest
            /\ popped' = Append(popped, PopFront(queue).item)
            /\ jobs' = [jobs EXCEPT ![j].pc = "processing",
                                    ![j].item = PopFront(queue).item]
    /\ UNCHANGED <<now, added, removed>>
    /\ UNCHANGED crawlFrame

\* crawler.rs:306-315: the video is processed, then mark_completed(&item.id)
\* and the count against maxcount
CompleteItem(j) ==
    /\ jobs[j].pc = "processing"
    /\ queue' = mark_completed(queue, jobs[j].item.id, now)
    /\ jobs' = IF jobs[j].count + 1 >= MaxBurst
               THEN [jobs EXCEPT ![j] = IdleJob]
               ELSE [jobs EXCEPT ![j].pc = "pop", ![j].item = NoItem,
                                 ![j].count = @ + 1]
    /\ UNCHANGED <<now, added, popped, removed>>
    /\ UNCHANGED crawlFrame

\* crawler.rs:72-83, called for an item that was handed out
FailItem(i) ==
    /\ queue' = mark_failed(queue, popped[i].id, now, "failed")
    /\ UNCHANGED <<jobs, now, added, popped, removed>>
    /\ UNCHANGED crawlFrame

\* crawler.rs:93-101, for an id the queue holds
RemoveItem(i) ==
    /\ queue' = SubSeq(queue, 1, FirstWithId(queue, queue[i].id) - 1)
                    \o SubSeq(queue, FirstWithId(queue, queue[i].id) + 1, Len(queue))
    /\ removed' = removed \cup {queue[FirstWithId(queue, queue[i].id)]}
    /\ UNCHANGED <<jobs, now, added, popped>>
    /\ UNCHANGED crawlFrame

NextCrawl ==
    \/ \E v \in QueueVideos : AddVideo(v)
    \/ Tick
    \/ \E j \in Jobs : StartCrawl(j)
    \/ \E j \in Jobs : PopNext(j)
    \/ \E j \in Jobs : CompleteItem(j)
    \/ \E i \in DOMAIN popped : FailItem(i)
    \/ \E i \in DOMAIN queue : RemoveItem(i)

SpecCrawl == InitCrawl /\ [][NextCrawl]_vars

AddedAt(items) == {items[i].added_at : i \in DOMAIN items}

(***************************************************************************)
(* C28.  Every item added is in exactly one place: waiting in the queue,   *)
(* handed out by one pop_next_video, or taken out by remove_item; the      *)
(* items are handed out in the order they were added, each before every    *)
(* item that is still waiting.                                             *)
(***************************************************************************)
HandedOutOnceInOrder ==
    /\ \A i, k \in DOMAIN popped : i < k => popped[i].added_at < popped[k].added_at
    /\ \A i \in DOMAIN popped, k \in DOMAIN queue :
          popped[i].added_at < queue[k].added_at
    /\ \A i, k \in DOMAIN queue : i < k => queue[i].added_at < queue[k].added_at
    /\ AddedAt(popped) \cup AddedAt(queue) \cup {it.added_at : it \in removed} = 1..added
    /\ AddedAt(popped) \cap AddedAt(queue) = {}
    /\ \A it \in removed : it.added_at \notin AddedAt(popped) \cup AddedAt(queue)
    /\ \A j \in Jobs :
          jobs[j].pc = "processing" => \E i \in DOMAIN popped : popped[i] = jobs[j].item
    /\ \A j, k \in Jobs :
          (j # k /\ jobs[j].pc = "processing" /\ jobs[k].pc = "processing")
              => jobs[j].item # jobs[k].item

\* Two jobs each hold an item, the older one with the job that popped
\* first, while the third item was removed from the queue.
HandedOutOnceInOrderWitness ==
    /\ added = 3
    /\ Len(popped) = 2
    /\ jobs[1].pc = "processing"
    /\ jobs[2].pc = "processing"
    /\ jobs[2].item = popped[1]
    /\ jobs[1].item = popped[2]
    /\ Cardinality(removed) = 1
    /\ queue = <<>>

(***************************************************************************)
(* C29.  Every item that waits in the queue has status "pending": marking  *)
(* an item that was handed out completed or failed changes no item of the  *)
(* queue.                                                                  *)
(***************************************************************************)
QueuedItemsArePending ==
    \A i \in DOMAIN queue : queue[i].status = "pending"

(***************************************************************************)
(* SpecMonitor: MONITORED_CHANNELS of services/monitoring_service.rs, the  *)
(* monitored_channels index and the tasks that take the RwLock of the      *)
(* list: the periodic check ("check") and two request handlers.  The lock  *)
(* is tokio's RwLock: waiters are served in the order they asked, a read   *)
(* is granted when no writer holds the lock, a write when nobody holds it. *)
(* A task is interleaved at each await: the calls to YouTube and to the    *)
(* index, and the wait for the lock.  A call to the index that fails       *)
(* returns before anything is changed, which is no step.  The videos a     *)
(* check finds are queued (add_playlist_video, line 593) as add_video      *)
(* queues them.                                                            *)
(***************************************************************************)
MonitorChannels == {1, 2}

MaxEntries == 2

MaxFound == 1

\* The video counts YouTube reports.
UploadCounts == {1}

\* RwLock::read() / write(): the task joins the waiters
Enqueue(l, t, mode) == [l EXCEPT !.waiters = Append(@, [task |-> t, mode |-> mode])]

\* The first waiter can have the lock.
CanGrant(l) ==
    /\ l.waiters # <<>>
    /\ l.writer = "none"
    /\ Head(l.waiters).mode = "write" => l.readers = {}

Granted(l) ==
    IF Head(l.waiters).mode = "read"
    THEN [l EXCEPT !.readers = @ \cup {Head(l.waiters).task}, !.waiters = Tail(@)]
    ELSE [l EXCEPT !.writer = Head(l.waiters).task, !.waiters = Tail(@)]

\* The guard is dropped.
ReleaseRead(l, t) == [l EXCEPT !.readers = @ \ {t}]

ReleaseWrite(l) == [l EXCEPT !.writer = "none"]

MonitoredChannel(channel_id, videos_uploaded) ==
    [channel_id |-> channel_id, active |-> TRUE, videos_uploaded |-> videos_uploaded]

\* iter_mut().find(|c| c.channel_id == channel_id): its position, 0 for None
FindChannel(list, channel_id) ==
    LET hits == {i \in DOMAIN list : list[i].channel_id = channel_id}
    IN  IF hits = {} THEN 0 ELSE CHOOSE i \in hits : \A k \in hits : i <= k

\* What the monitoring operations leave alone.
monitorFrame == <<corpus, pc, requestVars, truncVars, unitVars, jobs, now, popped, removed>>

InitMonitor ==
    /\ MonitorIdle
    /\ CrawlIdle
    /\ pc = "monitor"
    /\ corpus = <<>>
    /\ SearchIdle
    /\ TruncIdle
    /\ UnitIdle

\* The lock passes to the first waiter: read().await or write().await returns.
Grant(t) ==
    /\ CanGrant(lock)
    /\ Head(lock.waiters).task = t
    /\ lock' = Granted(lock)
    /\ tasks' = [tasks EXCEPT ![t].pc = IF Head(lock.waiters).mode = "read"
                                        THEN "loop" ELSE "writing",
                              ![t].position = 1]
    /\ UNCHANGED <<channels, index_docs, queue, added>>
    /\ UNCHANGED monitorFrame

\* lines 32-45, 439-442: the scheduler runs the check, which asks for the
\* read lock
CheckStart ==
    /\ tasks["check"].pc = "idle"
    /\ lock' = Enqueue(lock, "check", "read")
    /\ tasks' = [tasks EXCEPT !["check"].pc = "read_wait", !["check"].op = "check_all"]
    /\ UNCHANGED <<channels, index_docs, queue, added>>
    /\ UNCHANGED monitorFrame

\* lines 444-455: the loop over the guarded list; the guard is dropped when
\* the function returns
CheckNext ==
    /\ tasks["check"].pc = "loop"
    /\ IF tasks["check"].position > Len(channels)
       THEN /\ lock' = ReleaseRead(lock, "check")
            /\ tasks' = [tasks EXCEPT !["check"] = IdleTask]
       ELSE /\ UNCHANGED lock
            /\ tasks' = IF channels[tasks["check"].position].active
                        THEN [tasks EXCEPT
                                 !["check"].pc = "checking",
                                 !["check"].channel_id =
                                     channels[tasks["check"].position].channel_id]
                        ELSE [tasks EXCEPT !["check"].position = @ + 1]
    /\ UNCHANGED <<channels, index_docs, queue, added>>
    /\ UNCHANGED monitorFrame

\* api/monitor.rs:138-142: POST /channel/<channel_id>/check
CheckChannelStart(t, c) ==
    /\ t # "check"
    /\ tasks[t].pc = "idle"
    /\ tasks' = [tasks EXCEPT ![t].pc = "checking", ![t].op = "check_channel",
                              ![t].channel_id = c]
    /\ UNCHANGED <<channels, index_docs, lock, queue, added>>
    /\ UNCHANGED monitorFrame

\* check_channel_for_new_videos is over for this channel.
ChannelChecked(t) ==
    IF t = "check"
    THEN [tasks EXCEPT ![t].pc = "loop", ![t].position = @ + 1]
    ELSE [tasks EXCEPT ![t] = IdleTask]

\* lines 579-604: at most MaxFound new videos are found and queued
QueueFound(found) ==
    /\ found # 0 => added < MaxFound
    /\ queue' = IF found = 0 THEN queue ELSE Append(queue, QueueItem(found, now, added + 1))
    /\ added' = IF found = 0 THEN added ELSE added + 1

\* lines 512-533, 541-552: get_channel_playlist_id fails, or the update of
\* the index fails after the playlist was walked
CheckChannelFails(t, found) ==
    /\ tasks[t].pc = "checking"
    /\ QueueFound(found)
    /\ tasks' = ChannelChecked(t)
    /\ UNCHANGED <<channels, index_docs, lock>>
    /\ UNCHANGED monitorFrame

\* lines 512-517, 541-554: the count of the playlist is written to the
\* index, then update_channel_video_count asks for the write lock
CheckChannelCounts(t, found, n) ==
    /\ tasks[t].pc = "checking"
    /\ QueueFound(found)
    /\ lock' = Enqueue(lock, t, "write")
    /\ tasks' = [tasks EXCEPT ![t].pc = "write_wait", ![t].count = n]
    /\ UNCHANGED <<channels, index_docs>>
    /\ UNCHANGED monitorFrame

\* lines 554-560
UpdateCount(t) ==
    /\ tasks[t].pc = "writing"
    /\ tasks[t].op \in {"check_all", "check_channel"}
    /\ channels' = IF FindChannel(channels, tasks[t].channel_id) = 0 THEN channels
                   ELSE [channels EXCEPT
                            ![FindChannel(channels, tasks[t].channel_id)].videos_uploaded =
                                tasks[t].count]
    /\ lock' = ReleaseWrite(lock)
    /\ tasks' = ChannelChecked(t)
    /\ UNCHANGED <<index_docs, queue, added>>
    /\ UNCHANGED monitorFrame

\* The channels in the list and on their way into it.
Entries == Len(channels) + Cardinality({t \in Tasks : tasks[t].op = "add"})

\* lines 283-315: the channel is fetched, its document indexed under its
\* channel_id, and the write lock asked for
AddStart(t, c, n) ==
    /\ t # "check"
    /\ tasks[t].pc = "idle"
    /\ Entries < MaxEntries
    /\ index_docs' = index_docs \cup {c}
    /\ lock' = Enqueue(lock, t, "write")
    /\ tasks' = [tasks EXCEPT ![t].pc = "write_wait", ![t].op = "add",
                              ![t].channel_id = c, ![t].count = n]
    /\ UNCHANGED <<channels, queue, added>>
    /\ UNCHANGED monitorFrame

\* lines 315-317
AddPush(t) ==
    /\ tasks[t].pc = "writing"
    /\ tasks[t].op = "add"
    /\ channels' = Append(channels, MonitoredChannel(tasks[t].channel_id, tasks[t].count))
    /\ lock' = ReleaseWrite(lock)
    /\ tasks' = [tasks EXCEPT ![t] = IdleTask]
    /\ UNCHANGED <<index_docs, queue, added>>
    /\ UNCHANGED monitorFrame

\* lines 131-142: the document is deleted, then the write lock asked for
RemoveStart(t, c) ==
    /\ t # "check"
    /\ tasks[t].pc = "idle"
    /\ index_docs' = index_docs \ {c}
    /\ lock' = Enqueue(lock, t, "write")
    /\ tasks' = [tasks EXCEPT ![t].pc = "write_wait", ![t].op = "remove",
                              ![t].channel_id = c]
    /\ UNCHANGED <<channels, queue, added>>
    /\ UNCHANGED monitorFrame

\* lines 142-146
RemoveRetain(t) ==
    /\ tasks[t].pc = "writing"
    /\ tasks[t].op = "remove"
    /\ channels' = SelectSeq(channels,
                             LAMBDA channel : channel.channel_id # tasks[t].channel_id)
    /\ lock' = ReleaseWrite(lock)
    /\ tasks' = [tasks EXCEPT ![t] = IdleTask]
    /\ UNCHANGED <<index_docs, queue, added>>
    /\ UNCHANGED monitorFrame

\* lines 677-695: the document is updated (an update creates none), then
\* the write lock asked for
SetActiveStart(t, c, a) ==
    /\ t # "check"
    /\ tasks[t].pc = "idle"
    /\ lock' = Enqueue(lock, t, "write")
    /\ tasks' = [tasks EXCEPT ![t].pc = "write_wait", ![t].op = "set_active",
                              ![t].channel_id = c, ![t].active = a]
    /\ UNCHANGED <<channels, index_docs, queue, added>>
    /\ UNCHANGED monitorFrame

\* lines 695-701
SetActiveApply(t) ==
    /\ tasks[t].pc = "writing"
    /\ tasks[t].op = "set_active"
    /\ channels' = IF FindChannel(channels, tasks[t].channel_id) = 0 THEN channels
                   ELSE [channels EXCEPT
                            ![FindChannel(channels, tasks[t].channel_id)].active =
                                tasks[t].active]
    /\ lock' = ReleaseWrite(lock)
    /\ tasks' = [tasks EXCEPT ![t] = IdleTask]
    /\ UNCHANGED <<index_docs, queue, added>>
    /\ UNCHANGED monitorFrame

\* The steps of a task that is under way.
TaskStep(t) ==
    \/ Grant(t)
    \/ t = "check" /\ CheckNext
    \/ \E found \in {0} \cup QueueVideos : CheckChannelFails(t, found)
    \/ \E found \in {0} \cup QueueVideos, n \in UploadCounts : CheckChannelCounts(t, found, n)
    \/ UpdateCount(t)
    \/ AddPush(t)
    \/ RemoveRetain(t)
    \/ SetActiveApply(t)

NextMonitor ==
    \/ CheckStart
    \/ CheckNext
    \/ \E t \in Tasks : Grant(t)
    \/ \E t \in Tasks, c \in MonitorChannels : CheckChannelStart(t, c)
    \/ \E t \in Tasks, found \in {0} \cup QueueVideos : CheckChannelFails(t, found)
    \/ \E t \in Tasks, found \in {0} \cup QueueVideos, n \in UploadCounts :
          CheckChannelCounts(t, found, n)
    \/ \E t \in Tasks : UpdateCount(t)
    \/ \E t \in Tasks, c \in MonitorChannels, n \in UploadCounts : AddStart(t, c, n)
    \/ \E t \in Tasks : AddPush(t)
    \/ \E t \in Tasks, c \in MonitorChannels : RemoveStart(t, c)
    \/ \E t \in Tasks : RemoveRetain(t)
    \/ \E t \in Tasks, c \in MonitorChannels, a \in BOOLEAN : SetActiveStart(t, c, a)
    \/ \E t \in Tasks : SetActiveApply(t)

SpecMonitor == InitMonitor /\ [][NextMonitor]_vars

\* Every task that is under way and can take a step takes one: the runtime
\* polls every task that is ready.
SpecMonitorFair == SpecMonitor /\ \A t \in Tasks : WF_vars(TaskStep(t))

(***************************************************************************)
(* C27.  A run of the periodic check terminates: once started it gets back *)
(* to rest, its read lock released.                                        *)
(***************************************************************************)
CheckRunTerminates ==
    (tasks["check"].pc # "idle") ~> (tasks["check"].pc = "idle")

(***************************************************************************)
(* C30.  The list holds at most one entry for a channel_id.                *)
(***************************************************************************)
OneEntryPerChannel ==
    \A i, k \in DOMAIN channels :
        channels[i].channel_id = channels[k].channel_id => i = k

=============================================================================
